---- MODULE Spec2Model ----
(***************************************************************************)
(* Model of the embedded-graphics simulator core: the logical display      *)
(* (SimulatorDisplay), its raw byte export, the difference map, the output *)
(* settings and the rasterizer (OutputImage).                              *)
(*                                                                         *)
(* Conventions.  A Point is <<x, y>>, a Size is <<width, height>>.  Rust   *)
(* slices are 0-based; sequences here are 1-based, so slice index i is     *)
(* sequence position i + 1.  An Option is a set: None is {} and Some(v)    *)
(* is {v}.  A BinaryColor/GrayN pixel is its raw storage value, an Rgb888  *)
(* colour is <<r, g, b>>.                                                  *)
(***************************************************************************)
EXTENDS Integers, Sequences, FiniteSets, TLC

VARIABLES
    color,      \* the colour type C of the display (a type parameter)
    display,    \* SimulatorDisplay<C>: [size, pixels]
    other,      \* Option of a second SimulatorDisplay<C> (diff's argument)
    settings,   \* OutputSettings: [scale, pixel_spacing, theme, max_fps]
    offset,     \* where the display is drawn in the output image
    output,     \* Option of an OutputImage: [ctype, size, data]
    result,     \* what the last operation was called with and returned
    builder,    \* OutputSettingsBuilder: [scale, pixel_spacing, theme, max_fps]
    calls,      \* the setter calls made on the builder, in order (history)
    env,        \* the EG_SIMULATOR_* environment variables: name -> Option path
    files,      \* the PNG files: path -> Option of the decoded image
    process,    \* [status, code, message]: running, exited or panicked
    window,     \* Option of a Window: [framebuffer, sdl_window, output_settings]
    updates,    \* number of Window::update calls started (history)
    sdl_events, \* the events SDL has queued and no events call has polled yet
    pump,       \* GLOBAL_EVENT_PUMP: the polled events kept for other windows
    delivered,  \* every <<window id, event>> an events call took (history)
    arrivals,   \* number of arrivals of SDL events so far (history)
    sdl_windows \* number of windows SDL has built for the program

\* The variables of the settings builder, of the window shell and of the
\* SDL events.
builder_vars == <<builder, calls>>

shell_vars == <<env, files, process, window, updates>>

event_vars == <<sdl_events, pump, delivered, arrivals, sdl_windows>>

vars == <<color, display, other, settings, offset, output, result,
          builder_vars, shell_vars, event_vars>>

----------------------------------------------------------------------------
(* Bounds of the model. *)

\* Largest number of cells of a modelled display (width * height).
MaxCells == 4

\* Longest pixel sequence handed to one draw_iter call.
MaxBatch == 2

\* Widest display and largest number of rows of the raw byte export.
MaxRowPixels == 9

MaxRows == 2

\* Largest pixel scale and pixel spacing of the output settings.
MaxScale == 2

MaxSpacing == 1

\* Largest offset of a display in an output image, per axis.
MaxOffset == 1

\* Largest number of setter calls made on one settings builder.
MaxCalls == 3

\* The most calls of Window::update in one behaviour.
MaxUpdates == 2

\* The most arrivals of SDL events (one event or one burst) in one behaviour.
MaxArrivals == 3

\* Largest excess of an output image's sides over the side from which
\* fill_solid uses its row buffer.
MaxMargin == 1

----------------------------------------------------------------------------
(* Option, Point, Size, Rectangle. *)

None == {}

Some(v) == {v}

IsSome(o) == o # {}

Unwrap(o) == CHOOSE v \in o : TRUE

Min(a, b) == IF a <= b THEN a ELSE b

Max(a, b) == IF a >= b THEN a ELSE b

\* Rectangle::points of the rectangle at the origin: row-major, left to
\* right then top to bottom; the k-th point (k from 1) of a sz-sized area.
PointAt(sz, k) == <<(k - 1) % sz[1], (k - 1) \div sz[1]>>

\* The bounding box of an OriginDimensions object holds p.
Contains(sz, p) == p[1] >= 0 /\ p[1] < sz[1] /\ p[2] >= 0 /\ p[2] < sz[2]

\* All points of the bounding box (empty when either side is zero).
BoxPoints(sz) == {<<x, y>> : x \in 0 .. sz[1] - 1, y \in 0 .. sz[2] - 1}

----------------------------------------------------------------------------
(* Colour types (embedded-graphics pixelcolor), as far as the simulator    *)
(* relies on them.                                                         *)

\* C::Raw::BITS_PER_PIXEL
BITS_PER_PIXEL(c) ==
    CASE c = "BinaryColor" -> 1
      [] c = "Gray2" -> 2
      [] c = "Gray4" -> 4
      [] c = "Gray8" -> 8
      [] c = "Rgb565" -> 16
      [] c = "Rgb888" -> 24

\* Every storage value of a colour type with fewer than 8 bits.
ColorValues(c) == 0 .. (2 ^ BITS_PER_PIXEL(c) - 1)

\* BinaryColor::Off and BinaryColor::On
Off == 0

On == 1

\* BinaryColor::from(bool)
BinaryFromBool(b) == IF b THEN On ELSE Off

BLACK == <<0, 0, 0>>

WHITE == <<255, 255, 255>>

\* Into<Rgb888> for the display colour.
ToRgb888(c, v) ==
    CASE c = "BinaryColor" -> IF v = On THEN WHITE ELSE BLACK
      [] c = "Gray2" -> <<85 * v, 85 * v, 85 * v>>
      [] c = "Gray4" -> <<17 * v, 17 * v, 17 * v>>
      [] c = "Gray8" -> <<v, v, v>>
      [] c = "Rgb888" -> v

----------------------------------------------------------------------------
(* SimulatorDisplay (display.rs). *)

\* SimulatorDisplay::with_default_color
with_default_color(sz, default_color) ==
    [size |-> sz, pixels |-> [i \in 1 .. (sz[1] * sz[2]) |-> default_color]]

\* C::from(BinaryColor) of the display colour types: Off is black and On is
\* white.
FromBinaryColor(c, b) ==
    CASE c = "BinaryColor" -> b
      [] c = "Rgb888" -> IF b = On THEN WHITE ELSE BLACK
      [] OTHER -> IF b = On THEN 2 ^ BITS_PER_PIXEL(c) - 1 ELSE 0

\* SimulatorDisplay::<C>::new: filled with C::from(BinaryColor::Off).
new(c, sz) == with_default_color(sz, FromBinaryColor(c, Off))

\* A plausible slip: the bounds test compares x with the height.
point_to_index_swapped(d, point) ==
    IF point[1] >= 0 /\ point[2] >= 0
       /\ point[1] < d.size[2] /\ point[2] < d.size[2]
    THEN Some(point[1] + point[2] * d.size[1])
    ELSE None

\* A plausible slip: only the index, not the x coordinate, is range checked,
\* so x >= width lands in the following row.
point_to_index_wrapping(d, point) ==
    IF point[1] >= 0 /\ point[2] >= 0
       /\ point[1] + point[2] * d.size[1] < d.size[1] * d.size[2]
    THEN Some(point[1] + point[2] * d.size[1])
    ELSE None

\* SimulatorDisplay::point_to_index: None for a negative coordinate (the
\* conversion to (u32, u32) fails) and for x >= width or y >= height.
point_to_index(d, point) ==
    IF point[1] >= 0 /\ point[2] >= 0
       /\ point[1] < d.size[1] /\ point[2] < d.size[2]
    THEN Some(point[1] + point[2] * d.size[1])
    ELSE None

\* self.point_to_index(point).and_then(|index| self.pixels.get(index).copied())
get_pixel_checked(d, point) ==
    LET index == point_to_index(d, point) IN
    IF IsSome(index) /\ Unwrap(index) < Len(d.pixels)
    THEN Some(d.pixels[Unwrap(index) + 1])
    ELSE None

\* SimulatorDisplay::get_pixel: the expect() panics on None.
get_pixel(d, point) ==
    LET got == get_pixel_checked(d, point) IN
    [panicked |-> ~IsSome(got), value |-> got]

\* A plausible slip: the first write to a cell wins (later writes to a cell
\* already written by this call are skipped).
RECURSIVE draw_iter_first_wins(_, _)
draw_iter_first_wins(d, batch) ==
    IF batch = <<>> THEN [display |-> d, panicked |-> FALSE]
    ELSE LET rest == draw_iter_first_wins(d, Tail(batch))
             index == point_to_index(d, Head(batch)[1])
         IN  IF ~IsSome(index) THEN rest
             ELSE IF Unwrap(index) >= Len(d.pixels)
                  THEN [rest EXCEPT !.panicked = TRUE]
                  ELSE [rest EXCEPT
                          !.display.pixels[Unwrap(index) + 1] = Head(batch)[2]]

\* DrawTarget::draw_iter for SimulatorDisplay: a Pixel is <<point, color>>;
\* the indexing self.pixels[index] panics when index is past the array.
RECURSIVE draw_iter(_, _)
draw_iter(d, batch) ==
    IF batch = <<>> THEN [display |-> d, panicked |-> FALSE]
    ELSE LET index == point_to_index(d, Head(batch)[1]) IN
         IF ~IsSome(index) THEN draw_iter(d, Tail(batch))
         ELSE IF Unwrap(index) >= Len(d.pixels)
              THEN [display |-> d, panicked |-> TRUE]
              ELSE draw_iter(
                     [d EXCEPT !.pixels[Unwrap(index) + 1] = Head(batch)[2]],
                     Tail(batch))

\* The panic message of diff's size assertion, with its four numbers.
diff_message(a, b) ==
    <<"both displays must have the same size (self: {}x{}, other: {}x{})",
      a.size[1], a.size[2], b.size[1], b.size[2]>>

\* A plausible slip: the assertion compares the pixel counts, not the sizes.
diff_same_size_by_count(a, b) == a.size[1] * a.size[2] = b.size[1] * b.size[2]

\* self.size == other.size (Size equality is per field).
diff_same_size(a, b) == a.size[1] = b.size[1] /\ a.size[2] = b.size[2]

\* A plausible slip: the mask marks the equal cells.
diff_cell_inverted(a, b, p) ==
    BinaryFromBool(get_pixel(a, p).value = get_pixel(b, p).value)

\* BinaryColor::from(self.get_pixel(p) != other.get_pixel(p))
diff_cell(a, b, p) ==
    BinaryFromBool(get_pixel(a, p).value # get_pixel(b, p).value)

\* SimulatorDisplay::diff: assert the sizes, map the points of the bounding
\* box (row-major) to On/Off, return None when no cell is On.
diff(a, b) ==
    IF ~diff_same_size(a, b)
    THEN [panicked |-> TRUE, message |-> diff_message(a, b), value |-> None]
    ELSE LET count == IF a.size[1] = 0 \/ a.size[2] = 0
                      THEN 0 ELSE a.size[1] * a.size[2]
             faulty == \E k \in 1 .. count :
                          \/ get_pixel(a, PointAt(a.size, k)).panicked
                          \/ get_pixel(b, PointAt(a.size, k)).panicked
             mask == [k \in 1 .. count |-> diff_cell(a, b, PointAt(a.size, k))]
         IN  IF faulty
             THEN [panicked |-> TRUE,
                   message |-> <<"can't get point outside of display">>,
                   value |-> None]
             ELSE [panicked |-> FALSE, message |-> <<>>,
                   value |-> IF \E k \in 1 .. count : mask[k] = On
                             THEN Some([size |-> a.size, pixels |-> mask])
                             ELSE None]

----------------------------------------------------------------------------
(* Raw byte export (display.rs, to_bytes). *)

\* The concatenation of a sequence of sequences.
RECURSIVE Flatten(_)
Flatten(seqs) ==
    IF seqs = <<>> THEN <<>> ELSE Head(seqs) \o Flatten(Tail(seqs))

\* slice.chunks(n) for n > 0: consecutive pieces of n elements, the last one
\* possibly shorter.
Chunks(seq, n) ==
    [j \in 1 .. ((Len(seq) + n - 1) \div n) |->
        SubSeq(seq, (j - 1) * n + 1, Min(j * n, Len(seq)))]

\* Rgb565::new(r, g, b): the raw u16 with 5, 6 and 5 bits per channel (the
\* constructor masks each channel to its width).
Rgb565_new(r, g, b) == (r % 32) * 2048 + (g % 64) * 32 + (b % 32)

\* A plausible slip: the requested byte order is not used, every pixel is
\* written big endian.
pixel_to_bytes_order_unused(c, v, order) ==
    CASE BITS_PER_PIXEL(c) <= 8 -> <<v>>
      [] c = "Rgb565" -> <<v \div 256, v % 256>>
      [] c = "Rgb888" -> v

\* ToBytes::to_be_bytes / to_le_bytes / to_ne_bytes of one pixel.  Colours
\* below 8 bits have one byte, the raw value.  Rgb565 is its raw u16, Rgb888
\* is <<r, g, b>>.  The native order of the hosts the simulator runs on is
\* little endian.
pixel_to_bytes(c, v, order) ==
    CASE BITS_PER_PIXEL(c) <= 8 -> <<v>>
      [] c = "Rgb565" -> IF order = "be" THEN <<v \div 256, v % 256>>
                         ELSE <<v % 256, v \div 256>>
      [] c = "Rgb888" -> IF order = "be" THEN v ELSE <<v[3], v[2], v[1]>>

\* A plausible slip: the pixels of a byte are packed from the least
\* significant field upwards.
RECURSIVE pack_byte_lsb_first(_, _, _)
pack_byte_lsb_first(c, byte_pixels, pixels_per_byte) ==
    IF byte_pixels = <<>> THEN 0
    ELSE (pixel_to_bytes(c, Head(byte_pixels), "be")[1]
          + (2 ^ BITS_PER_PIXEL(c))
            * pack_byte_lsb_first(c, Tail(byte_pixels), pixels_per_byte)) % 256

\* The inner loop of to_bytes, in u8 arithmetic: value <<= BITS; value |=
\* pixel.to_be_bytes()[0], pixel by pixel (the new low field is empty, so the
\* or is an addition).
RECURSIVE pack_fields(_, _, _)
pack_fields(c, value, byte_pixels) ==
    IF byte_pixels = <<>> THEN value
    ELSE pack_fields(
           c,
           ((value * (2 ^ BITS_PER_PIXEL(c))) % 256)
             + pixel_to_bytes(c, Head(byte_pixels), "be")[1],
           Tail(byte_pixels))

\* One output byte of to_bytes: the packed pixels, then
\* value <<= BITS * (pixels_per_byte - byte_pixels.len()).
pack_byte(c, byte_pixels, pixels_per_byte) ==
    (pack_fields(c, 0, byte_pixels)
     * (2 ^ (BITS_PER_PIXEL(c) * (pixels_per_byte - Len(byte_pixels))))) % 256

\* A plausible slip: the bytes are packed over the whole pixel array
\* instead of row by row, so a byte can hold pixels of two rows.
to_bytes_rows_unpadded(c, d) == <<d.pixels>>

\* self.pixels.chunks(self.size.width as usize)
to_bytes_rows(c, d) == Chunks(d.pixels, d.size[1])

\* SimulatorDisplay::to_bytes.  Below 8 bits per pixel the byte order is not
\* used; chunks(0) panics, which is what a display of width 0 gets there.
to_bytes(c, d, order) ==
    IF BITS_PER_PIXEL(c) >= 8
    THEN [panicked |-> FALSE,
          value |-> Flatten([i \in 1 .. Len(d.pixels) |->
                               pixel_to_bytes(c, d.pixels[i], order)])]
    ELSE IF d.size[1] = 0
    THEN [panicked |-> TRUE, value |-> <<>>]
    ELSE LET pixels_per_byte == 8 \div BITS_PER_PIXEL(c)
             rows == to_bytes_rows(c, d)
             row_bytes(row) ==
                 LET chunks == Chunks(row, pixels_per_byte) IN
                 [j \in 1 .. Len(chunks) |->
                     pack_byte(c, chunks[j], pixels_per_byte)]
         IN  [panicked |-> FALSE,
              value |-> Flatten([r \in 1 .. Len(rows) |-> row_bytes(rows[r])])]

\* to_be_bytes, to_le_bytes, to_ne_bytes
to_be_bytes(c, d) == to_bytes(c, d, "be")

to_le_bytes(c, d) == to_bytes(c, d, "le")

to_ne_bytes(c, d) == to_bytes(c, d, "ne")

----------------------------------------------------------------------------
(* BinaryColorTheme (theme.rs). *)

\* A plausible slip: the colour is classified by its equality with white.
map_color_white_is_on(rgb, color_off, color_on) ==
    IF rgb = WHITE THEN color_on ELSE color_off

\* map_color
map_color(rgb, color_off, color_on) ==
    IF rgb = BLACK THEN color_off ELSE color_on

\* A plausible slip: the inverted blue channel is computed from the red one.
convert_inverted_copied_channel(theme, rgb) ==
    CASE theme.kind = "Default" -> rgb
      [] theme.kind = "Custom" -> map_color(rgb, theme.color_off, theme.color_on)
      [] theme.kind = "Inverted" -> <<255 - rgb[1], 255 - rgb[2], 255 - rgb[1]>>
      [] theme.kind = "LcdWhite" ->
            map_color(rgb, <<245, 245, 245>>, <<32, 32, 32>>)
      [] theme.kind = "LcdGreen" ->
            map_color(rgb, <<120, 185, 50>>, <<32, 32, 32>>)
      [] theme.kind = "LcdBlue" ->
            map_color(rgb, <<70, 80, 230>>, <<230, 230, 255>>)
      [] theme.kind = "OledBlue" ->
            map_color(rgb, <<0, 20, 40>>, <<0, 210, 255>>)
      [] theme.kind = "OledWhite" -> map_color(rgb, <<20, 20, 20>>, WHITE)

\* BinaryColorTheme::convert; a theme is [kind |-> name], the Custom theme
\* has the fields color_off and color_on too.
convert(theme, rgb) ==
    CASE theme.kind = "Default" -> rgb
      [] theme.kind = "Custom" -> map_color(rgb, theme.color_off, theme.color_on)
      [] theme.kind = "Inverted" -> <<255 - rgb[1], 255 - rgb[2], 255 - rgb[3]>>
      [] theme.kind = "LcdWhite" ->
            map_color(rgb, <<245, 245, 245>>, <<32, 32, 32>>)
      [] theme.kind = "LcdGreen" ->
            map_color(rgb, <<120, 185, 50>>, <<32, 32, 32>>)
      [] theme.kind = "LcdBlue" ->
            map_color(rgb, <<70, 80, 230>>, <<230, 230, 255>>)
      [] theme.kind = "OledBlue" ->
            map_color(rgb, <<0, 20, 40>>, <<0, 210, 255>>)
      [] theme.kind = "OledWhite" -> map_color(rgb, <<20, 20, 20>>, WHITE)

----------------------------------------------------------------------------
(* OutputSettings (output_settings.rs). *)

\* u32::saturating_sub
saturating_sub(a, b) == IF a >= b THEN a - b ELSE 0

\* A plausible slip: the spacing is counted once per pixel, not once per gap.
framebuffer_size_per_pixel(s, d) ==
    <<d.size[1] * s.scale + d.size[1] * s.pixel_spacing,
      d.size[2] * s.scale + d.size[2] * s.pixel_spacing>>

\* OutputSettings::framebuffer_size
framebuffer_size(s, d) ==
    LET width == d.size[1]
        height == d.size[2]
        output_width == width * s.scale + saturating_sub(width, 1) * s.pixel_spacing
        output_height == height * s.scale + saturating_sub(height, 1) * s.pixel_spacing
    IN  <<output_width, output_height>>

\* SimulatorDisplay::output_size, which draw_display and Window::update call:
\* the size of the display's output area, the derived quantity of the output
\* configuration.
output_size(d, s) ==
    <<d.size[1] * s.scale + Max(d.size[1] - 1, 0) * s.pixel_spacing,
      d.size[2] * s.scale + Max(d.size[2] - 1, 0) * s.pixel_spacing>>

----------------------------------------------------------------------------
(* OutputSettingsBuilder (output_settings.rs). *)

\* OutputSettingsBuilder::new
OutputSettingsBuilder_new ==
    [scale |-> None, pixel_spacing |-> None, theme |-> [kind |-> "Default"],
     max_fps |-> None]

\* Option::get_or_insert: the value is kept if there is one.
get_or_insert(o, v) == IF IsSome(o) THEN o ELSE Some(v)

\* Option::unwrap_or
unwrap_or(o, v) == IF IsSome(o) THEN Unwrap(o) ELSE v

\* The automatic scale and spacing of a themed display.
ThemedScale == 3

ThemedSpacing == 1

\* The defaults of build().
DefaultScale == 1

DefaultSpacing == 0

DefaultMaxFps == 60

\* A plausible slip: the assertion is missing, a scale of 0 is stored.
builder_scale_unchecked(b, scale) ==
    [panicked |-> FALSE, message |-> "", builder |-> [b EXCEPT !.scale = Some(scale)]]

\* OutputSettingsBuilder::scale: assert!(scale > 0, "scale must be > 0")
builder_scale(b, scale) ==
    IF ~(scale > 0)
    THEN [panicked |-> TRUE, message |-> "scale must be > 0", builder |-> b]
    ELSE [panicked |-> FALSE, message |-> "",
          builder |-> [b EXCEPT !.scale = Some(scale)]]

\* A plausible slip: theme() sets the scale and the spacing of a themed
\* display whatever was specified before.
builder_theme_overriding(b, theme) ==
    [b EXCEPT !.theme = theme,
              !.scale = Some(ThemedScale),
              !.pixel_spacing = Some(ThemedSpacing)]

\* OutputSettingsBuilder::theme
builder_theme(b, theme) ==
    [b EXCEPT !.theme = theme,
              !.scale = get_or_insert(b.scale, ThemedScale),
              !.pixel_spacing = get_or_insert(b.pixel_spacing, ThemedSpacing)]

\* OutputSettingsBuilder::pixel_spacing
builder_pixel_spacing(b, pixel_spacing) ==
    [b EXCEPT !.pixel_spacing = Some(pixel_spacing)]

\* OutputSettingsBuilder::max_fps
builder_max_fps(b, max_fps) == [b EXCEPT !.max_fps = Some(max_fps)]

\* OutputSettingsBuilder::build
build(b) ==
    [scale |-> unwrap_or(b.scale, DefaultScale),
     pixel_spacing |-> unwrap_or(b.pixel_spacing, DefaultSpacing),
     theme |-> b.theme,
     max_fps |-> unwrap_or(b.max_fps, DefaultMaxFps)]

----------------------------------------------------------------------------
(* Rectangle (embedded-graphics), as OutputImage uses it. *)

Rectangle(top_left, sz) == [top_left |-> top_left, size |-> sz]

\* Rectangle::bottom_right: None for a rectangle with a zero side.
bottom_right(r) ==
    IF r.size[1] = 0 \/ r.size[2] = 0 THEN None
    ELSE Some(<<r.top_left[1] + r.size[1] - 1, r.top_left[2] + r.size[2] - 1>>)

\* Rectangle::contains
rect_contains(r, p) ==
    /\ p[1] >= r.top_left[1] /\ p[1] < r.top_left[1] + r.size[1]
    /\ p[2] >= r.top_left[2] /\ p[2] < r.top_left[2] + r.size[2]

\* Rectangle::intersection: the overlap of two rectangles; a zero sized
\* rectangle lying inside the other one is returned as it is; without an
\* overlap the result is Rectangle::zero().
intersection(self, o) ==
    LET sbr == bottom_right(self)
        obr == bottom_right(o)
        zero == Rectangle(<<0, 0>>, <<0, 0>>)
    IN  CASE IsSome(sbr) /\ IsSome(obr) ->
               LET s2 == Unwrap(sbr)
                   o2 == Unwrap(obr)
                   x1 == Max(self.top_left[1], o.top_left[1])
                   y1 == Max(self.top_left[2], o.top_left[2])
                   x2 == Min(s2[1], o2[1])
                   y2 == Min(s2[2], o2[2])
               IN  IF x1 <= x2 /\ y1 <= y2
                   THEN Rectangle(<<x1, y1>>, <<x2 - x1 + 1, y2 - y1 + 1>>)
                   ELSE zero
          [] ~IsSome(sbr) /\ IsSome(obr) ->
               IF rect_contains(o, self.top_left) THEN self ELSE zero
          [] IsSome(sbr) /\ ~IsSome(obr) ->
               IF rect_contains(self, o.top_left) THEN o ELSE zero
          [] OTHER -> zero

----------------------------------------------------------------------------
(* OutputImage (output_image.rs): [ctype, size, data], ctype the output    *)
(* colour type, Rgb888 (3 bytes per pixel) or Gray8 (1 byte per pixel).    *)

\* OutputImageColor::BYTES_PER_PIXEL
BYTES_PER_PIXEL(ctype) == IF ctype = "Rgb888" THEN 3 ELSE 1

\* The luma of an RGB colour (embedded-graphics, ITU-R BT.601 in integers).
luma(rgb) == (rgb[1] * 77 + rgb[2] * 150 + rgb[3] * 29 + 128) \div 256

\* C::from(Rgb888) for the output colour type, as the bytes it is stored
\* with: to_be_bytes of an Rgb888, into_storage of a Gray8.
output_bytes(ctype, rgb) ==
    IF ctype = "Rgb888" THEN rgb ELSE <<luma(rgb)>>

\* OutputImage::new: every byte 0.
OutputImage_new(ctype, sz) ==
    [ctype |-> ctype, size |-> sz,
     data |-> [i \in 1 .. (sz[1] * sz[2] * BYTES_PER_PIXEL(ctype)) |-> 0]]

\* The pixel index x + y * self.size.width of draw_iter.
image_index(img, x, y) == x + y * img.size[1]

\* A plausible slip: x is not compared with the width, so a pixel right of
\* the image lands in the following row.
RECURSIVE image_draw_iter_wrapping(_, _)
image_draw_iter_wrapping(img, batch) ==
    IF batch = <<>> THEN [image |-> img, panicked |-> FALSE]
    ELSE LET p == Head(batch)[1]
             bytes == Head(batch)[2]
             n == Len(bytes)
             start_index == image_index(img, p[1], p[2]) * n
         IN  IF ~(p[1] >= 0 /\ p[2] >= 0 /\ p[2] < img.size[2])
             THEN image_draw_iter_wrapping(img, Tail(batch))
             ELSE IF start_index + n > Len(img.data)
             THEN [image |-> img, panicked |-> TRUE]
             ELSE image_draw_iter_wrapping(
                    [img EXCEPT !.data =
                        [i \in 1 .. Len(img.data) |->
                            IF i > start_index /\ i <= start_index + n
                            THEN bytes[i - start_index] ELSE img.data[i]]],
                    Tail(batch))

\* DrawTarget::draw_iter for OutputImage<Rgb888> and OutputImage<Gray8>: a
\* Pixel is <<point, bytes>>; out of bounds pixels are skipped; the slice
\* write panics past the end of data.
RECURSIVE image_draw_iter(_, _)
image_draw_iter(img, batch) ==
    IF batch = <<>> THEN [image |-> img, panicked |-> FALSE]
    ELSE LET p == Head(batch)[1]
             bytes == Head(batch)[2]
             n == Len(bytes)
             start_index == image_index(img, p[1], p[2]) * n
         IN  IF ~(p[1] >= 0 /\ p[2] >= 0
                  /\ p[1] < img.size[1] /\ p[2] < img.size[2])
             THEN image_draw_iter(img, Tail(batch))
             ELSE IF start_index + n > Len(img.data)
             THEN [image |-> img, panicked |-> TRUE]
             ELSE image_draw_iter(
                    [img EXCEPT !.data =
                        [i \in 1 .. Len(img.data) |->
                            IF i > start_index /\ i <= start_index + n
                            THEN bytes[i - start_index] ELSE img.data[i]]],
                    Tail(batch))

\* The threshold of fill_solid's row buffer path.
LargeSide == 16

\* fill_solid: the area is clipped to the image, then written row by row.
\* For OutputImage<Rgb888> an area of at least LargeSide x LargeSide gets a
\* prepared row buffer copied into every row, a smaller one is written in
\* chunks of one pixel; OutputImage<Gray8> fills each row slice.  A row
\* slice that ends past data panics.
fill_solid(img, rect, bytes) ==
    LET area == intersection(rect, Rectangle(<<0, 0>>, img.size))
        n == Len(bytes)
        large == img.ctype = "Rgb888"
                 /\ area.size[1] >= LargeSide /\ area.size[2] >= LargeSide
        row_buffer == [k \in 1 .. (area.size[1] * n) |-> bytes[((k - 1) % n) + 1]]
        bytes_per_row == img.size[1] * n
        x_start == area.top_left[1] * n
        x_end == x_start + area.size[1] * n
        rows == area.top_left[2] .. (area.top_left[2] + area.size[2] - 1)
        faulty == \E y \in rows : bytes_per_row * y + x_end > Len(img.data)
        row_of(i) == (i - 1) \div bytes_per_row
        col_of(i) == (i - 1) % bytes_per_row
        inside(i) == bytes_per_row > 0 /\ row_of(i) \in rows
                     /\ col_of(i) >= x_start /\ col_of(i) < x_end
    IN  IF faulty THEN [image |-> img, panicked |-> TRUE]
        ELSE [image |->
                [img EXCEPT !.data =
                    [i \in 1 .. Len(img.data) |->
                        IF ~inside(i) THEN img.data[i]
                        ELSE IF large THEN row_buffer[col_of(i) - x_start + 1]
                        ELSE bytes[((col_of(i) - x_start) % n) + 1]]],
              panicked |-> FALSE]

\* The output colour of a display pixel, as stored bytes:
\* C::from(theme.convert(display.get_pixel(p).into()))
output_color(ctype, c, d, s, p) ==
    output_bytes(ctype, convert(s.theme, ToRgb888(c, Unwrap(get_pixel(d, p).value))))

\* A plausible slip: a block covers the whole pixel pitch, gutter included.
block_size_with_spacing(s) == <<s.scale + s.pixel_spacing, s.scale + s.pixel_spacing>>

\* let pixel_size = Size::new(output_settings.scale, output_settings.scale)
block_size(s) == <<s.scale, s.scale>>

\* The else branch of draw_display: one fill_solid per display point, the
\* points k .. count of the bounding box in row-major order.
RECURSIVE draw_blocks(_, _, _, _, _, _)
draw_blocks(img, c, d, position, s, k) ==
    IF k > d.size[1] * d.size[2] THEN [image |-> img, panicked |-> FALSE]
    ELSE LET p == PointAt(d.size, k)
             pixel_pitch == s.scale + s.pixel_spacing
             r == fill_solid(
                    img,
                    Rectangle(<<p[1] * pixel_pitch + position[1],
                                p[2] * pixel_pitch + position[2]>>,
                              block_size(s)),
                    output_color(img.ctype, c, d, s, p))
         IN  IF r.panicked THEN r
             ELSE draw_blocks(r.image, c, d, position, s, k + 1)

\* The scale == 1 branch of draw_display: the pixels handed to draw_iter,
\* Pixel(p + position, output_color) for every point of the bounding box.
unit_pixels(ctype, c, d, position, s) ==
    [k \in 1 .. (d.size[1] * d.size[2]) |->
        LET p == PointAt(d.size, k) IN
        <<<<p[1] + position[1], p[2] + position[2]>>,
          output_color(ctype, c, d, s, p)>>]

\* OutputImage::draw_display: fill the display area with the theme's
\* background, then draw every display pixel, with draw_iter when the scale
\* is 1 and with one fill_solid per pixel otherwise.
draw_display(img, c, d, position, s) ==
    LET display_area == Rectangle(position, output_size(d, s))
        cleared == fill_solid(img, display_area,
                              output_bytes(img.ctype, convert(s.theme, BLACK)))
    IN  IF cleared.panicked THEN cleared
        ELSE IF s.scale = 1
        THEN image_draw_iter(cleared.image,
                             unit_pixels(img.ctype, c, d, position, s))
        ELSE draw_blocks(cleared.image, c, d, position, s, 1)

\* The image with every pixel set to the theme's background, the converted
\* black: step 2 of the full redraw.
background(img, s) ==
    LET bytes == output_bytes(img.ctype, convert(s.theme, BLACK))
        n == BYTES_PER_PIXEL(img.ctype)
    IN  [img EXCEPT !.data = [i \in 1 .. Len(img.data) |-> bytes[((i - 1) % n) + 1]]]

\* A plausible slip: the raster is initialised, the blocks are not filled.
update_background_only(img, c, d, s) ==
    [image |-> background(img, s), panicked |-> FALSE]

\* OutputImage::update of a freshly created image, the full redraw: every
\* byte is set to the background, then the block of scale x scale pixels at
\* p * (scale + pixel_spacing) is filled with the output colour of every
\* point p of the display, for every scale.
update(img, c, d, s) == draw_blocks(background(img, s), c, d, <<0, 0>>, s, 1)

\* SimulatorDisplay::to_rgb_output_image and to_grayscale_output_image: an
\* image of the framebuffer size, updated from the display.
to_output_image(ctype, c, d, s) ==
    update(OutputImage_new(ctype, framebuffer_size(s, d)), c, d, s)

to_rgb_output_image(c, d, s) == to_output_image("Rgb888", c, d, s)

to_grayscale_output_image(c, d, s) == to_output_image("Gray8", c, d, s)

----------------------------------------------------------------------------
(* Window (window/mod.rs): the PNG files, the regression hooks of the      *)
(* environment and the window itself.  A PNG file is the image it decodes  *)
(* to, [ctype, size, data]: the codec is lossless.                         *)

\* OutputSettings::default(): what OutputSettingsBuilder::new().build()
\* returns, every Option of the builder being None.
OutputSettings_default ==
    [scale |-> 1, pixel_spacing |-> 0, theme |-> [kind |-> "Default"],
     max_fps |-> 60]

\* The environment variables Window::update reads, and the paths they name.
EnvNames == {"EG_SIMULATOR_CHECK", "EG_SIMULATOR_CHECK_RAW",
             "EG_SIMULATOR_DUMP", "EG_SIMULATOR_DUMP_RAW"}

Paths == {"check.png", "check_raw.png", "dump.png", "dump_raw.png"}

\* The process runs; process::exit and a panic end it.
ProcessRunning == [status |-> "running", code |-> 0, message |-> <<>>]

\* C::from(Rgb888) of the display colour types: the luma decides for the
\* binary and the gray colours.
FromRgb888(c, rgb) ==
    CASE c = "BinaryColor" -> IF luma(rgb) >= 128 THEN On ELSE Off
      [] c = "Gray2" -> luma(rgb) \div 64
      [] c = "Gray4" -> luma(rgb) \div 16
      [] c = "Gray8" -> luma(rgb)
      [] c = "Rgb888" -> rgb

\* image::load(..).to_rgb8(): the decoded image as RGB, 3 bytes per pixel (a
\* grayscale PNG gets its value in every channel).
to_rgb8(png) ==
    IF png.ctype = "Rgb888" THEN png
    ELSE [ctype |-> "Rgb888", size |-> png.size,
          data |-> [i \in 1 .. (3 * Len(png.data)) |-> png.data[((i - 1) \div 3) + 1]]]

\* OutputImage::save_png(path): the file holds the encoded image.
save_png(img, path, fs) == [fs EXCEPT ![path] = Some(img)]

\* SimulatorDisplay::load_png(path): Err (None here) without the file,
\* else a display of the PNG's size with the pixels Rgb888(p).into().
load_png(c, path, fs) ==
    IF ~IsSome(fs[path]) THEN None
    ELSE LET image == to_rgb8(Unwrap(fs[path])) IN
         Some([size |-> image.size,
               pixels |-> [k \in 1 .. (Len(image.data) \div 3) |->
                             FromRgb888(c, <<image.data[3 * k - 2],
                                             image.data[3 * k - 1],
                                             image.data[3 * k]>>)]])

\* process::exit(code) and a panic of the main thread (exit code 101).
Exited(code) == [status |-> "exited", code |-> code, message |-> <<>>]

Panicked(message) == [status |-> "panicked", code |-> 101, message |-> message]

\* The panic of Result::unwrap on an Err.
UnwrapErr == Panicked(<<"called Result::unwrap() on an Err value">>)

\* A plausible slip: only the dimensions are asserted.
check_asserts_sizes_only(size, content, png_size, png_content) ==
    IF size # png_size
    THEN Panicked(<<"display dimensions don't match PNG dimensions (display: {}x{}, PNG: {}x{})",
                    size[1], size[2], png_size[1], png_size[2]>>)
    ELSE Exited(0)

\* The two assertions of a check and the exit that follows them: the
\* dimensions first, then the content.
check_asserts(size, content, png_size, png_content) ==
    IF size # png_size
    THEN Panicked(<<"display dimensions don't match PNG dimensions (display: {}x{}, PNG: {}x{})",
                    size[1], size[2], png_size[1], png_size[2]>>)
    ELSE IF content # png_content
    THEN Panicked(<<"display content doesn't match PNG file">>)
    ELSE Exited(0)

\* The branch of Window::update the environment selects: the variables are
\* read in this order and the first one that is set decides.
update_branch(e) ==
    IF IsSome(e["EG_SIMULATOR_CHECK"]) THEN "EG_SIMULATOR_CHECK"
    ELSE IF IsSome(e["EG_SIMULATOR_CHECK_RAW"]) THEN "EG_SIMULATOR_CHECK_RAW"
    ELSE IF IsSome(e["EG_SIMULATOR_DUMP"]) THEN "EG_SIMULATOR_DUMP"
    ELSE IF IsSome(e["EG_SIMULATOR_DUMP_RAW"]) THEN "EG_SIMULATOR_DUMP_RAW"
    ELSE "window"

\* self.canvas.window().id(): SDL numbers the windows it builds from 1 on;
\* built is the number of windows it has built before this one.
canvas_window_id(built) == built + 1

\* A plausible slip: the raw dump is rendered with the window's settings.
update_settings_of_window(w, e) == w.output_settings

\* The settings the selected branch renders the display with: the window's,
\* but OutputSettings::default() for EG_SIMULATOR_DUMP_RAW.
update_settings(w, e) ==
    IF update_branch(e) = "EG_SIMULATOR_DUMP_RAW" THEN OutputSettings_default
    ELSE w.output_settings

\* The image the windowed branch draws the display on: the window's
\* framebuffer, created with the display's output size on the first call.
update_target(w, d, e) ==
    IF IsSome(w.framebuffer) THEN Unwrap(w.framebuffer)
    ELSE OutputImage_new("Rgb888", output_size(d, w.output_settings))

\* What the selected branch renders: framebuffer.draw_display at the origin
\* in the windowed branch, display.to_rgb_output_image with the branch's
\* settings in the environment branches.  to_rgb_output_image does not call
\* draw_display: it calls OutputImage::update, the full redraw, so the two
\* renderings differ where draw_display departs from the full redraw (scale
\* 1 with a pixel spacing).
update_drawn(w, c, d, e) ==
    IF update_branch(e) = "window"
    THEN draw_display(update_target(w, d, e), c, d, <<0, 0>>, w.output_settings)
    ELSE to_rgb_output_image(c, d, update_settings(w, e))

\* The EG_SIMULATOR_CHECK branch of Window::update, rendered being the
\* result of display.to_rgb_output_image(&self.output_settings).
update_check(rendered, path, fs) ==
    IF rendered.panicked THEN Panicked(<<"to_rgb_output_image">>)
    ELSE IF ~IsSome(fs[path]) THEN UnwrapErr
    ELSE check_asserts(rendered.image.size, rendered.image.data,
                       to_rgb8(Unwrap(fs[path])).size, to_rgb8(Unwrap(fs[path])).data)

\* The EG_SIMULATOR_CHECK_RAW branch of Window::update.
update_check_raw(c, d, path, fs) ==
    IF ~IsSome(load_png(c, path, fs)) THEN UnwrapErr
    ELSE check_asserts(d.size, d.pixels,
                       Unwrap(load_png(c, path, fs)).size,
                       Unwrap(load_png(c, path, fs)).pixels)

\* The EG_SIMULATOR_DUMP and EG_SIMULATOR_DUMP_RAW branches of
\* Window::update: the files after it, rendered being the result of
\* to_rgb_output_image with the branch's settings.
update_dump(rendered, path, fs) == save_png(rendered.image, path, fs)

\* Window::new
Window_new(output_settings) ==
    [framebuffer |-> None, sdl_window |-> None, output_settings |-> output_settings]

\* SdlWindow::new(title, size) and SdlWindow::update(framebuffer): the window
\* has a size and shows the data of the framebuffer it was updated with.
SdlWindow_new(sz, built) == [id |-> canvas_window_id(built), size |-> sz, shown |-> <<>>]

SdlWindow_update(sdl, framebuffer) == [sdl EXCEPT !.shown = framebuffer.data]

\* The windowed part of Window::update: the SDL window is created on the
\* first call with the display's output size, and updated with the
\* framebuffer the display was drawn on at the origin (drawn).
update_window(w, d, drawn, built) ==
    [w EXCEPT
       !.framebuffer = Some(drawn.image),
       !.sdl_window =
          Some(IF drawn.panicked
               THEN IF IsSome(w.sdl_window) THEN Unwrap(w.sdl_window)
                    ELSE SdlWindow_new(output_size(d, w.output_settings), built)
               ELSE SdlWindow_update(
                       IF IsSome(w.sdl_window) THEN Unwrap(w.sdl_window)
                       ELSE SdlWindow_new(output_size(d, w.output_settings), built),
                       drawn.image))]

\* The outcome of the selected branch, drawn being the display drawn on the
\* branch's image with the branch's settings.  Every environment branch ends
\* the process.
update_outcome(w, c, d, e, fs, drawn, built) ==
    CASE update_branch(e) = "EG_SIMULATOR_CHECK" ->
            [process |-> update_check(drawn, Unwrap(e["EG_SIMULATOR_CHECK"]), fs),
             files |-> fs, window |-> w]
      [] update_branch(e) = "EG_SIMULATOR_CHECK_RAW" ->
            [process |-> update_check_raw(c, d, Unwrap(e["EG_SIMULATOR_CHECK_RAW"]), fs),
             files |-> fs, window |-> w]
      [] update_branch(e) = "EG_SIMULATOR_DUMP" ->
            [process |-> Exited(0),
             files |-> update_dump(drawn, Unwrap(e["EG_SIMULATOR_DUMP"]), fs),
             window |-> w]
      [] update_branch(e) = "EG_SIMULATOR_DUMP_RAW" ->
            [process |-> Exited(0),
             files |-> update_dump(drawn, Unwrap(e["EG_SIMULATOR_DUMP_RAW"]), fs),
             window |-> w]
      [] update_branch(e) = "window" ->
            [process |-> IF drawn.panicked THEN Panicked(<<"draw_display">>)
                         ELSE ProcessRunning,
             files |-> fs, window |-> update_window(w, d, drawn, built)]

\* Window::update: the display is rendered (to_rgb_output_image in the
\* environment branches, framebuffer.draw_display in the windowed one; the
\* raw check uses no rendering), then the branch acts.
Window_update(w, c, d, e, fs, built) ==
    update_outcome(w, c, d, e, fs, update_drawn(w, c, d, e), built)

\* The number of windows SDL has built after a Window::update that started
\* with the window before and ended with the window after: one more when
\* the update built the SDL window.
windows_built(before, after, built) ==
    IF ~IsSome(before.sdl_window) /\ IsSome(after.sdl_window)
    THEN built + 1 ELSE built

----------------------------------------------------------------------------
(* MultiWindow (window/multi_window.rs): one window, the displays added to *)
(* it by their offset and settings.                                        *)

\* i32 division, which truncates toward zero.
TruncDiv(a, b) == IF a >= 0 THEN a \div b ELSE -((-a) \div b)

\* OutputSettings::pixel_pitch
pixel_pitch(s) == s.scale + s.pixel_spacing

\* OutputSettings::output_to_display
output_to_display(s, output_point) ==
    LET pitch == pixel_pitch(s) IN
    <<TruncDiv(output_point[1], pitch), TruncDiv(output_point[2], pitch)>>

\* display.bounding_box(): the rectangle of the display's size at the origin.
bounding_box(d) == Rectangle(<<0, 0>>, d.size)

\* Rectangle::contains: no point is in a rectangle with a zero side.
contains(r, p) ==
    /\ IsSome(bottom_right(r))
    /\ p[1] >= r.top_left[1] /\ p[1] <= Unwrap(bottom_right(r))[1]
    /\ p[2] >= r.top_left[2] /\ p[2] <= Unwrap(bottom_right(r))[2]

\* bool::then_some
then_some(b, v) == IF b THEN Some(v) ELSE None

\* The identities (display.id) of the displays of the model: the variable
\* that holds the display names it.
DisplayIds == {"display", "other"}

\* MultiWindow::new(title, size): the window shows its empty framebuffer; no
\* display is added.  The registry maps the ids of the added displays to
\* their DisplaySettings.
MultiWindow_new(sz, built) ==
    LET framebuffer == OutputImage_new("Rgb888", sz) IN
    [sdl_window |-> SdlWindow_update(SdlWindow_new(sz, built), framebuffer),
     framebuffer |-> framebuffer,
     displays |-> [id \in {} |-> {}]]

\* MultiWindow::add_display: the entry of the display is inserted, or replaced.
add_display(w, id, off, output_settings) ==
    [w EXCEPT !.displays =
        [i \in (DOMAIN w.displays) \cup {id} |->
           IF i = id THEN [offset |-> off, output_settings |-> output_settings]
           ELSE w.displays[i]]]

\* A plausible slip: the display is drawn at the origin of the window.
update_display_at_origin(w, id, c, d) ==
    IF id \notin DOMAIN w.displays
    THEN [panicked |-> TRUE, window |-> w]
    ELSE LET drawn == draw_display(w.framebuffer, c, d, <<0, 0>>,
                                   w.displays[id].output_settings)
         IN  [panicked |-> drawn.panicked,
              window |-> [w EXCEPT !.framebuffer = drawn.image]]

\* MultiWindow::update_display: expect() panics for a display that was not
\* added; else the display is drawn into the framebuffer at its offset with
\* its settings.
update_display(w, id, c, d) ==
    IF id \notin DOMAIN w.displays
    THEN [panicked |-> TRUE, window |-> w]
    ELSE LET drawn == draw_display(w.framebuffer, c, d, w.displays[id].offset,
                                   w.displays[id].output_settings)
         IN  [panicked |-> drawn.panicked,
              window |-> [w EXCEPT !.framebuffer = drawn.image]]

\* MultiWindow::clear: DrawTarget::clear fills the bounding box of the
\* framebuffer.
MultiWindow_clear(w, rgb) ==
    LET filled == fill_solid(w.framebuffer, Rectangle(<<0, 0>>, w.framebuffer.size),
                             output_bytes("Rgb888", rgb))
    IN  [panicked |-> filled.panicked,
         window |-> [w EXCEPT !.framebuffer = filled.image]]

\* A plausible slip: flush presents nothing.
flush_nothing(w) == w

\* MultiWindow::flush: the SDL window is updated from the framebuffer.
flush(w) == [w EXCEPT !.sdl_window = SdlWindow_update(w.sdl_window, w.framebuffer)]

\* MultiWindow::translate_mouse_position: expect() panics for a display that
\* was not added.
translate_mouse_position(w, id, d, position) ==
    IF id \notin DOMAIN w.displays
    THEN [panicked |-> TRUE, value |-> None]
    ELSE LET display_settings == w.displays[id]
             delta == <<position[1] - display_settings.offset[1],
                        position[2] - display_settings.offset[2]>>
             p == output_to_display(display_settings.output_settings, delta)
         IN  [panicked |-> FALSE,
              value |-> then_some(contains(bounding_box(d), p), p)]

----------------------------------------------------------------------------
(* SdlWindow::events (window/sdl_window.rs).  An SDL event is                *)
(* [n, window, kind, keycode]: n tells the events apart and orders them by   *)
(* arrival, window is the Option of the window id the event carries.         *)

MAXIMUM_GLOBAL_EVENT_PUMP_SIZE == 32

\* Event::get_window_id
get_window_id(e) == e.window

\* The first n elements of a sequence: seq[..seq.len().min(n)].
Take(seq, n) == SubSeq(seq, 1, Min(Len(seq), n))

\* A plausible slip: the pump is not limited.
limit_pump_unlimited(remaining) == remaining

\* A plausible slip: the newest events are kept.
limit_pump_newest(remaining) ==
    SubSeq(remaining,
           Len(remaining) - Min(Len(remaining), MAXIMUM_GLOBAL_EVENT_PUMP_SIZE) + 1,
           Len(remaining))

\* The limit of the global event pump: the first
\* MAXIMUM_GLOBAL_EVENT_PUMP_SIZE of the remaining events are kept.
limit_pump(remaining) == Take(remaining, MAXIMUM_GLOBAL_EVENT_PUMP_SIZE)

\* A plausible slip: events without a window id are left in the pump.
for_window_by_id_only(window_id, e) == get_window_id(e) = Some(window_id)

\* The predicate of the partition: the event is for this window, or global.
for_window(window_id, e) ==
    get_window_id(e) = Some(window_id) \/ ~IsSome(get_window_id(e))

\* The match of the filter_map: the SimulatorEvent of an SDL event, or None.
\* Quit and an Escape key-down become SimulatorEvent::Quit, a key event
\* without a keycode and the events of other kinds give nothing, the
\* position of a mouse button or motion event is translated with the
\* window's settings, the scroll of a wheel event is passed on as it is.
simulator_event(output_settings, e) ==
    CASE e.kind = "Quit" -> Some([kind |-> "Quit"])
      [] e.kind = "KeyDown" /\ e.keycode = Some("Escape") -> Some([kind |-> "Quit"])
      [] e.kind = "KeyDown" /\ e.keycode # Some("Escape") ->
            IF IsSome(e.keycode)
            THEN Some([kind |-> "KeyDown", keycode |-> Unwrap(e.keycode),
                       keymod |-> e.keymod, repeat |-> e.repeat])
            ELSE None
      [] e.kind = "KeyUp" ->
            IF IsSome(e.keycode)
            THEN Some([kind |-> "KeyUp", keycode |-> Unwrap(e.keycode),
                       keymod |-> e.keymod, repeat |-> e.repeat])
            ELSE None
      [] e.kind = "MouseButtonUp" ->
            Some([kind |-> "MouseButtonUp",
                  point |-> output_to_display(output_settings, e.position),
                  mouse_btn |-> e.mouse_btn])
      [] e.kind = "MouseButtonDown" ->
            Some([kind |-> "MouseButtonDown",
                  point |-> output_to_display(output_settings, e.position),
                  mouse_btn |-> e.mouse_btn])
      [] e.kind = "MouseWheel" ->
            Some([kind |-> "MouseWheel", scroll_delta |-> e.position,
                  direction |-> e.direction])
      [] e.kind = "MouseMotion" ->
            Some([kind |-> "MouseMove",
                  point |-> output_to_display(output_settings, e.position)])
      [] OTHER -> None

\* filter_map over the events: the SimulatorEvents of those that have one,
\* in their order.
filter_map(output_settings, events) ==
    LET mapped == [i \in 1 .. Len(events) |->
                     simulator_event(output_settings, events[i])]
        Mapped(o) == IsSome(o)
        kept == SelectSeq(mapped, Mapped)
    IN  [i \in 1 .. Len(kept) |-> Unwrap(kept[i])]

\* SdlWindow::events of the window with the given id: the pump is drained
\* and chained with the events polled from SDL, the events for this window
\* are taken, the others go back to the pump up to its limit.
SdlWindow_events(window_id, output_settings, polled, retained) ==
    LET chained == retained \o polled
        Mine(e) == for_window(window_id, e)
        Others(e) == ~for_window(window_id, e)
        events == SelectSeq(chained, Mine)
        remaining == SelectSeq(chained, Others)
    IN  [events |-> events,
         pump |-> limit_pump(remaining),
         simulator_events |-> filter_map(output_settings, events)]

\* Window::events: the events of the SDL window, which update has built.
Window_events(w, polled, retained) ==
    SdlWindow_events(Unwrap(w.sdl_window).id, w.output_settings, polled, retained)

\* A plausible slip: the loop of show_static ends with any event.
show_static_quit_on_any(simulator_events) == simulator_events # <<>>

\* self.events().any(|e| e == SimulatorEvent::Quit)
show_static_quit(simulator_events) ==
    \E i \in 1 .. Len(simulator_events) : simulator_events[i] = [kind |-> "Quit"]

----------------------------------------------------------------------------
(* Inputs of the display operations. *)

\* The display sizes of the model: every width and height, zero included,
\* with at most MaxCells cells.
Sizes == {sz \in (0 .. MaxCells) \X (0 .. MaxCells) : sz[1] * sz[2] <= MaxCells}

\* The points handed to the display: every point of the display and points
\* just outside each edge ((width, 0) is the one a missing x test would
\* wrap into the next row, (-1, 1) into the previous one).
ProbePoints(sz) ==
    BoxPoints(sz) \cup {<<-1, 1>>, <<0, -1>>, <<sz[1], 0>>, <<0, sz[2]>>}

\* The pixel sequences handed to draw_iter: up to MaxBatch Pixel(point, color).
Batches(c, sz) ==
    UNION {[1 .. n -> ProbePoints(sz) \X ColorValues(c)] : n \in 0 .. MaxBatch}

\* The single-pixel sequences.
SinglePixels(c, sz) == [1 .. 1 -> BoxPoints(sz) \X ColorValues(c)]

\* The display contents of the specifications that start from a drawn
\* display: the pixel at (x, y) is (a * x + s * y + b) modulo the number of
\* colours (uniform, striped and chequered displays), or one pixel differs
\* from a uniform display.  draw_iter reaches each of them.
Patterns(c, sz) ==
    LET n == 2 ^ BITS_PER_PIXEL(c)
        cells == sz[1] * sz[2]
    IN  {[k \in 1 .. cells |->
            (a * PointAt(sz, k)[1] + s * PointAt(sz, k)[2] + b) % n] :
            a \in {0, 1}, s \in {0, 1}, b \in 0 .. n - 1}
        \cup {[k \in 1 .. cells |-> IF k = j THEN n - 1 ELSE 0] : j \in 1 .. cells}

\* The themes of the rendering specifications.
Themes == {[kind |-> "Default"], [kind |-> "Inverted"], [kind |-> "LcdBlue"]}

----------------------------------------------------------------------------
(* The display as a state machine. *)

\* A builder nobody has called yet.
NoBuilder ==
    /\ builder = OutputSettingsBuilder_new
    /\ calls = <<>>

\* A process without environment variables, files and window.
NoShell ==
    /\ env = [name \in EnvNames |-> None]
    /\ files = [path \in Paths |-> None]
    /\ process = ProcessRunning
    /\ window = None
    /\ updates = 0

\* No SDL event has arrived.
NoArrivals ==
    /\ sdl_events = <<>>
    /\ pump = <<>>
    /\ delivered = <<>>
    /\ arrivals = 0

\* No SDL event has arrived and no SDL window is built.
NoEvents ==
    /\ NoArrivals
    /\ sdl_windows = 0

\* No call is in progress: the next operation can be called.  After a panic
\* (result.panicked) nothing runs any more: the thread has unwound.
Idle == [op |-> "idle", panicked |-> FALSE]

Running == result = Idle /\ process.status = "running"

\* The caller takes the returned value and goes on; show_static has not
\* returned while it polls.
Return ==
    /\ result.op # "idle"
    /\ ~result.panicked
    /\ process.status = "running"
    /\ result.op = "show_static" => result.pc = "returned"
    /\ result' = Idle
    /\ UNCHANGED <<color, display, other, settings, offset, output,
                 builder_vars, shell_vars,
                 event_vars>>

\* Construction: SimulatorDisplay::new(size) or with_default_color(size, c).
InitDisplay ==
    /\ color = "BinaryColor"
    /\ \E sz \in Sizes : \E c \in ColorValues(color) :
          display = with_default_color(sz, c)
    /\ other = None
    /\ settings = OutputSettings_default
    /\ offset = <<0, 0>>
    /\ output = None
    /\ result = Idle
    /\ NoBuilder
    /\ NoShell
    /\ NoEvents

\* display.draw_iter(batch)
DrawIter(batch) ==
    /\ Running
    /\ LET r == draw_iter(display, batch) IN
       /\ display' = r.display
       /\ result' = [op |-> "draw_iter", panicked |-> r.panicked,
                     pixels |-> batch, before |-> display,
                     ret |-> IF r.panicked THEN None ELSE Some("Ok")]
    /\ UNCHANGED <<color, other, settings, offset, output,
                 builder_vars, shell_vars,
                 event_vars>>

\* display.get_pixel(point)
GetPixel(point) ==
    /\ Running
    /\ LET r == get_pixel(display, point) IN
       result' = [op |-> "get_pixel", panicked |-> r.panicked,
                  point |-> point, value |-> r.value]
    /\ UNCHANGED <<color, display, other, settings, offset, output,
                 builder_vars, shell_vars,
                 event_vars>>

\* let other = display.clone()
Clone ==
    /\ Running
    /\ other' = Some(display)
    /\ UNCHANGED <<color, display, settings, offset, output, result,
                 builder_vars, shell_vars,
                 event_vars>>

\* let other = SimulatorDisplay::new(sz)
NewOther(sz) ==
    /\ Running
    /\ other' = Some(new(color, sz))
    /\ UNCHANGED <<color, display, settings, offset, output, result,
                 builder_vars, shell_vars,
                 event_vars>>

\* display.diff(&other)
Diff ==
    /\ Running
    /\ IsSome(other)
    /\ LET r == diff(display, Unwrap(other)) IN
       result' = [op |-> "diff", panicked |-> r.panicked,
                  message |-> r.message, value |-> r.value]
    /\ UNCHANGED <<color, display, other, settings, offset, output,
                 builder_vars, shell_vars,
                 event_vars>>

\* let display = display.diff(&other).unwrap(): the caller goes on with the
\* display that diff returned.
TakeDiff ==
    /\ result.op = "diff"
    /\ ~result.panicked
    /\ IsSome(result.value)
    /\ process.status = "running"
    /\ display' = Unwrap(result.value)
    /\ result' = Idle
    /\ UNCHANGED <<color, other, settings, offset, output,
                 builder_vars, shell_vars,
                 event_vars>>

\* Drawing and reading pixels.
NextDraw ==
    \/ Running /\ \E batch \in Batches(color, display.size) : DrawIter(batch)
    \/ Running /\ \E point \in ProbePoints(display.size) : GetPixel(point)
    \/ Return

SpecDraw == InitDisplay /\ [][NextDraw]_vars

\* Drawing single pixels, cloning and comparing.
NextDiff ==
    \/ Running /\ \E batch \in SinglePixels(color, display.size) : DrawIter(batch)
    \/ Clone
    \/ Running /\ \E sz \in Sizes : NewOther(sz)
    \/ Diff
    \/ TakeDiff
    \/ Return

SpecDiff == InitDisplay /\ [][NextDiff]_vars

----------------------------------------------------------------------------
(* The raw byte export, applied to drawn displays of 1, 2 and 4 bits. *)

ByteSizes == (0 .. MaxRowPixels) \X (0 .. MaxRows)

InitBytes ==
    /\ color \in {"BinaryColor", "Gray2", "Gray4"}
    /\ \E sz \in ByteSizes : \E px \in Patterns(color, sz) :
          display = [size |-> sz, pixels |-> px]
    /\ other = None
    /\ settings = OutputSettings_default
    /\ offset = <<0, 0>>
    /\ output = None
    /\ result = Idle
    /\ NoBuilder
    /\ NoShell
    /\ NoEvents

\* display.to_be_bytes(), to_le_bytes() or to_ne_bytes()
ToBytes(order) ==
    /\ Running
    /\ LET r == to_bytes(color, display, order) IN
       result' = [op |-> "to_bytes", panicked |-> r.panicked,
                  order |-> order, value |-> r.value]
    /\ UNCHANGED <<color, display, other, settings, offset, output,
                 builder_vars, shell_vars,
                 event_vars>>

NextBytes ==
    \/ \E order \in {"be", "le", "ne"} : ToBytes(order)
    \/ Return

SpecBytes == InitBytes /\ [][NextBytes]_vars

----------------------------------------------------------------------------
(* The raw byte export, applied to displays of 8, 16 and 24 bits. *)

\* Colours of the wide colour types: the ones of the to_bytes tests and
\* colours whose bytes all differ.
WideValues(c) ==
    CASE c = "Gray8" -> <<0, 1, 128, 255>>
      [] c = "Rgb565" -> <<Rgb565_new(16, 0, 0), Rgb565_new(0, 0, 1),
                           Rgb565_new(1, 2, 3), Rgb565_new(31, 63, 31)>>
      [] c = "Rgb888" -> <<<<128, 0, 0>>, <<0, 0, 1>>, <<1, 2, 3>>,
                           <<255, 254, 253>>>>

\* Display contents over the wide colours: the pixel at (x, y) is the colour
\* number (a * x + s * y + b) modulo the number of colours.
WidePatterns(c, sz) ==
    LET vals == WideValues(c)
        n == Len(vals)
    IN  {[k \in 1 .. (sz[1] * sz[2]) |->
            vals[((a * PointAt(sz, k)[1] + s * PointAt(sz, k)[2] + b) % n) + 1]] :
            a \in {0, 1}, s \in {0, 1}, b \in 0 .. n - 1}

InitWideBytes ==
    /\ color \in {"Gray8", "Rgb565", "Rgb888"}
    /\ \E sz \in Sizes : \E px \in WidePatterns(color, sz) :
          display = [size |-> sz, pixels |-> px]
    /\ other = None
    /\ settings = OutputSettings_default
    /\ offset = <<0, 0>>
    /\ output = None
    /\ result = Idle
    /\ NoBuilder
    /\ NoShell
    /\ NoEvents

SpecWideBytes == InitWideBytes /\ [][NextBytes]_vars

----------------------------------------------------------------------------
(* The theme function, applied to RGB colours. *)

\* Channel values of the colours handed to convert: both ends of the u8
\* range, their neighbours and the middle.
ChannelValues == {0, 1, 128, 254, 255}

ThemeInputs == ChannelValues \X ChannelValues \X ChannelValues

\* Every variant of BinaryColorTheme; Custom with two colours, with black
\* and white exchanged, and with equal colours.
AllThemes ==
    {[kind |-> k] : k \in {"Default", "Inverted", "LcdWhite", "LcdGreen",
                           "LcdBlue", "OledBlue", "OledWhite"}}
    \cup {[kind |-> "Custom", color_off |-> c[1], color_on |-> c[2]] :
             c \in {<<<<10, 20, 30>>, <<200, 100, 50>>>>,
                    <<WHITE, BLACK>>,
                    <<<<7, 7, 7>>, <<7, 7, 7>>>>}}

InitTheme ==
    /\ color = "Rgb888"
    /\ display = new(color, <<0, 0>>)
    /\ other = None
    /\ \E theme \in AllThemes :
          settings = [OutputSettings_default EXCEPT !.theme = theme]
    /\ offset = <<0, 0>>
    /\ output = None
    /\ result = Idle
    /\ NoBuilder
    /\ NoShell
    /\ NoEvents

\* settings.theme.convert(rgb)
Convert(rgb) ==
    /\ Running
    /\ result' = [op |-> "convert", panicked |-> FALSE, rgb |-> rgb,
                  value |-> convert(settings.theme, rgb)]
    /\ UNCHANGED <<color, display, other, settings, offset, output,
                 builder_vars, shell_vars,
                 event_vars>>

NextTheme ==
    \/ \E rgb \in ThemeInputs : Convert(rgb)
    \/ Return

SpecTheme == InitTheme /\ [][NextTheme]_vars

----------------------------------------------------------------------------
(* Output images of drawn displays. *)

InitImage ==
    /\ color \in {"BinaryColor", "Gray2"}
    /\ \E sz \in Sizes : \E px \in Patterns(color, sz) :
          display = [size |-> sz, pixels |-> px]
    /\ other = None
    /\ \E scale \in 0 .. MaxScale, pixel_spacing \in 0 .. MaxSpacing,
          theme \in Themes :
          settings = [scale |-> scale, pixel_spacing |-> pixel_spacing,
                      theme |-> theme, max_fps |-> 60]
    /\ offset = <<0, 0>>
    /\ output = None
    /\ result = Idle
    /\ NoBuilder
    /\ NoShell
    /\ NoEvents

\* settings.framebuffer_size(&display)
FramebufferSize ==
    /\ Running
    /\ result' = [op |-> "framebuffer_size", panicked |-> FALSE,
                  value |-> framebuffer_size(settings, display)]
    /\ UNCHANGED <<color, display, other, settings, offset, output,
                 builder_vars, shell_vars,
                 event_vars>>

\* display.to_rgb_output_image(&settings)
ToRgbOutputImage ==
    /\ Running
    /\ LET r == to_rgb_output_image(color, display, settings) IN
       result' = [op |-> "to_rgb_output_image", panicked |-> r.panicked,
                  image |-> r.image]
    /\ UNCHANGED <<color, display, other, settings, offset, output,
                 builder_vars, shell_vars,
                 event_vars>>

\* display.to_grayscale_output_image(&settings)
ToGrayscaleOutputImage ==
    /\ Running
    /\ LET r == to_grayscale_output_image(color, display, settings) IN
       result' = [op |-> "to_grayscale_output_image", panicked |-> r.panicked,
                  image |-> r.image]
    /\ UNCHANGED <<color, display, other, settings, offset, output,
                 builder_vars, shell_vars,
                 event_vars>>

NextImage ==
    \/ FramebufferSize
    \/ ToRgbOutputImage
    \/ ToGrayscaleOutputImage
    \/ Return

SpecImage == InitImage /\ [][NextImage]_vars

----------------------------------------------------------------------------
(* Drawing a display into an output image at an offset. *)

\* The offsets of a display in the output image.
Offsets == (0 .. MaxOffset) \X (0 .. MaxOffset)

\* The colour MultiWindow::clear is called with.
ClearColor == <<9, 90, 200>>

\* The output image is as large as the display's output area, or larger by
\* MaxOffset on both axes: it holds the whole area at every offset.
InitRender ==
    /\ color = "BinaryColor"
    /\ \E sz \in Sizes : \E px \in Patterns(color, sz) :
          display = [size |-> sz, pixels |-> px]
    /\ other = None
    /\ \E scale \in 1 .. MaxScale, pixel_spacing \in 0 .. MaxSpacing,
          theme \in Themes :
          settings = [scale |-> scale, pixel_spacing |-> pixel_spacing,
                      theme |-> theme, max_fps |-> 60]
    /\ offset \in Offsets
    /\ \E ctype \in {"Rgb888", "Gray8"}, margin \in {0, MaxOffset} :
          output = Some(OutputImage_new(
                          ctype,
                          <<output_size(display, settings)[1] + margin,
                            output_size(display, settings)[2] + margin>>))
    /\ result = Idle
    /\ NoBuilder
    /\ NoShell
    /\ NoEvents

\* framebuffer.clear(color): DrawTarget::clear fills the bounding box.
Clear ==
    /\ Running
    /\ LET img == Unwrap(output)
           r == fill_solid(img, Rectangle(<<0, 0>>, img.size),
                           output_bytes(img.ctype, ClearColor))
       IN  /\ output' = Some(r.image)
           /\ result' = [op |-> "clear", panicked |-> r.panicked]
    /\ UNCHANGED <<color, display, other, settings, offset,
                 builder_vars, shell_vars,
                 event_vars>>

\* framebuffer.draw_display(&display, offset, &settings)
DrawDisplay ==
    /\ Running
    /\ LET r == draw_display(Unwrap(output), color, display, offset, settings) IN
       /\ output' = Some(r.image)
       /\ result' = [op |-> "draw_display", panicked |-> r.panicked]
    /\ UNCHANGED <<color, display, other, settings, offset,
                 builder_vars, shell_vars,
                 event_vars>>

NextRender ==
    \/ Clear
    \/ DrawDisplay
    \/ Return

SpecRender == InitRender /\ [][NextRender]_vars

----------------------------------------------------------------------------
(* Filling areas of painted output images. *)

\* The image sizes: small ones, and sizes from LargeSide x LargeSide on.
FillImageSizes ==
    {<<3, 2>>, <<1, 3>>, <<0, 0>>}
    \cup {<<LargeSide + m, LargeSide + n>> : m, n \in 0 .. MaxMargin}

\* The filled areas: corners inside, on the edge of and outside the image,
\* sides of zero, one pixel, just below LargeSide, LargeSide and beyond the
\* largest image.
FillSides == {0, 1, LargeSide - 1, LargeSide, LargeSide + MaxMargin + 2}

FillCorners == {<<0, 0>>, <<1, 0>>, <<0, 1>>, <<-1, -1>>, <<2, 1>>}

FillAreas ==
    {Rectangle(tl, <<w, h>>) : tl \in FillCorners, w \in FillSides, h \in FillSides}

\* The fill colour, as the bytes stored for it.
FillBytes(ctype) == IF ctype = "Rgb888" THEN <<1, 2, 3>> ELSE <<200>>

\* An image that has been drawn on: its bytes differ from their neighbours
\* and from the fill colour.
PaintedImage(ctype, sz) ==
    [ctype |-> ctype, size |-> sz,
     data |-> [i \in 1 .. (sz[1] * sz[2] * BYTES_PER_PIXEL(ctype)) |-> 10 + (i % 7)]]

InitFill ==
    /\ color = "BinaryColor"
    /\ display = new(color, <<0, 0>>)
    /\ other = None
    /\ settings = OutputSettings_default
    /\ offset = <<0, 0>>
    /\ \E ctype \in {"Rgb888", "Gray8"}, sz \in FillImageSizes :
          output = Some(PaintedImage(ctype, sz))
    /\ result = Idle
    /\ NoBuilder
    /\ NoShell
    /\ NoEvents

\* image.fill_solid(&area, colour)
FillSolid(area) ==
    /\ Running
    /\ LET img == Unwrap(output)
           r == fill_solid(img, area, FillBytes(img.ctype))
       IN  /\ output' = Some(r.image)
           /\ result' = [op |-> "fill_solid", panicked |-> r.panicked,
                         area |-> area, bytes |-> FillBytes(img.ctype),
                         before |-> img]
    /\ UNCHANGED <<color, display, other, settings, offset,
                 builder_vars, shell_vars,
                 event_vars>>

NextFill == \E area \in FillAreas : FillSolid(area)

SpecFill == InitFill /\ [][NextFill]_vars

----------------------------------------------------------------------------
(* Drawing pixels into output images. *)

\* The image sizes of this specification, zero sized ones included.
PixelImageSizes == {<<2, 2>>, <<3, 1>>, <<1, 3>>, <<0, 2>>, <<0, 0>>}

\* The colour drawn, and the bytes draw_iter stores for it: to_be_bytes of
\* an Rgb888 (R, G, B), into_storage of a Gray8.
DrawnColor(ctype) == IF ctype = "Rgb888" THEN <<18, 52, 86>> ELSE 18

color_bytes(ctype, c) == IF ctype = "Rgb888" THEN <<c[1], c[2], c[3]>> ELSE <<c>>

\* The pixel sequences handed to the image: up to MaxBatch pixels, at points
\* inside and just outside the image.
PixelBatches(ctype, sz) ==
    UNION {[1 .. n -> ProbePoints(sz) \X {DrawnColor(ctype)}] : n \in 0 .. MaxBatch}

InitPixels ==
    /\ color = "BinaryColor"
    /\ display = new(color, <<0, 0>>)
    /\ other = None
    /\ settings = OutputSettings_default
    /\ offset = <<0, 0>>
    /\ \E ctype \in {"Rgb888", "Gray8"}, sz \in PixelImageSizes :
          output \in {Some(OutputImage_new(ctype, sz)), Some(PaintedImage(ctype, sz))}
    /\ result = Idle
    /\ NoBuilder
    /\ NoShell
    /\ NoEvents

\* image.draw_iter(pixels)
ImageDrawIter(pixels) ==
    /\ Running
    /\ LET img == Unwrap(output)
           r == image_draw_iter(
                  img, [k \in 1 .. Len(pixels) |->
                          <<pixels[k][1], color_bytes(img.ctype, pixels[k][2])>>])
       IN  /\ output' = Some(r.image)
           /\ result' = [op |-> "image_draw_iter", panicked |-> r.panicked,
                         pixels |-> pixels, before |-> img]
    /\ UNCHANGED <<color, display, other, settings, offset,
                 builder_vars, shell_vars,
                 event_vars>>

NextPixels ==
    \/ Running /\ \E pixels \in PixelBatches(Unwrap(output).ctype, Unwrap(output).size) :
                     ImageDrawIter(pixels)
    \/ Return

SpecPixels == InitPixels /\ [][NextPixels]_vars

----------------------------------------------------------------------------
(* Building output settings: OutputSettingsBuilder::new(), setter calls in  *)
(* any order, build().                                                      *)

\* The frame rates handed to max_fps.
FpsValues == {30, 144}

InitBuilder ==
    /\ color = "BinaryColor"
    /\ display = new(color, <<0, 0>>)
    /\ other = None
    /\ settings = OutputSettings_default
    /\ offset = <<0, 0>>
    /\ output = None
    /\ result = Idle
    /\ NoBuilder
    /\ NoShell
    /\ NoEvents

\* builder = builder.scale(scale); the panic of the assertion ends the run.
BuilderScale(scale) ==
    /\ Running
    /\ Len(calls) < MaxCalls
    /\ LET r == builder_scale(builder, scale) IN
       /\ builder' = r.builder
       /\ calls' = IF r.panicked THEN calls ELSE Append(calls, <<"scale", scale>>)
       /\ result' = IF r.panicked
                    THEN [op |-> "scale", panicked |-> TRUE, scale |-> scale,
                          message |-> r.message]
                    ELSE result
    /\ UNCHANGED <<color, display, other, settings, offset, output, shell_vars,
                 event_vars>>

\* builder = builder.theme(theme)
BuilderTheme(theme) ==
    /\ Running
    /\ Len(calls) < MaxCalls
    /\ builder' = builder_theme(builder, theme)
    /\ calls' = Append(calls, <<"theme", theme>>)
    /\ UNCHANGED <<color, display, other, settings, offset, output, result,
                   shell_vars,
                 event_vars>>

\* builder = builder.pixel_spacing(pixel_spacing)
BuilderPixelSpacing(pixel_spacing) ==
    /\ Running
    /\ Len(calls) < MaxCalls
    /\ builder' = builder_pixel_spacing(builder, pixel_spacing)
    /\ calls' = Append(calls, <<"pixel_spacing", pixel_spacing>>)
    /\ UNCHANGED <<color, display, other, settings, offset, output, result,
                   shell_vars,
                 event_vars>>

\* builder = builder.max_fps(max_fps)
BuilderMaxFps(max_fps) ==
    /\ Running
    /\ Len(calls) < MaxCalls
    /\ builder' = builder_max_fps(builder, max_fps)
    /\ calls' = Append(calls, <<"max_fps", max_fps>>)
    /\ UNCHANGED <<color, display, other, settings, offset, output, result,
                   shell_vars,
                 event_vars>>

\* settings = builder.build(): the builder is consumed, the next chain of
\* calls starts from OutputSettingsBuilder::new().
Build ==
    /\ Running
    /\ settings' = build(builder)
    /\ result' = [op |-> "build", panicked |-> FALSE, value |-> build(builder),
                  calls |-> calls]
    /\ builder' = OutputSettingsBuilder_new
    /\ calls' = <<>>
    /\ UNCHANGED <<color, display, other, offset, output, shell_vars,
                 event_vars>>

NextBuilder ==
    \/ \E scale \in 0 .. MaxScale : BuilderScale(scale)
    \/ \E theme \in Themes : BuilderTheme(theme)
    \/ \E pixel_spacing \in 0 .. MaxSpacing : BuilderPixelSpacing(pixel_spacing)
    \/ \E max_fps \in FpsValues : BuilderMaxFps(max_fps)
    \/ Build
    \/ Return

SpecBuilder == InitBuilder /\ [][NextBuilder]_vars

----------------------------------------------------------------------------
(* Observations used by the properties. *)

\* The bytes of the pixel (x, y) of an output image, read row-major as
\* as_image_buffer presents the data.
image_pixel(img, x, y) ==
    LET n == BYTES_PER_PIXEL(img.ctype) IN
    SubSeq(img.data, (x + y * img.size[1]) * n + 1, (x + y * img.size[1]) * n + n)

\* The rectangle (position, size) lies inside the image.
AreaInside(img, pos, sz) ==
    /\ pos[1] >= 0 /\ pos[2] >= 0
    /\ pos[1] + sz[1] <= img.size[1]
    /\ pos[2] + sz[2] <= img.size[2]

\* The positions of the pairs of a batch that address the point p.
WritesTo(batch, p) == {i \in 1 .. Len(batch) : batch[i][1] = p}

\* The largest element of a non-empty set of integers.
Last(set) == CHOOSE i \in set : \A j \in set : j <= i

----------------------------------------------------------------------------
(* A window updated under the regression hooks of the environment: the     *)
(* reference files are what an earlier dump wrote, or differ from it.       *)

WindowSizes == {<<2, 1>>, <<1, 2>>, <<2, 2>>}

WindowThemes == {[kind |-> "Default"], [kind |-> "LcdBlue"]}

\* The image with its first pixel's bytes changed.
Altered(img) ==
    [img EXCEPT !.data = [i \in 1 .. Len(img.data) |->
                            IF i <= 3 THEN 255 - img.data[i] ELSE img.data[i]]]

\* The same bytes as an image of the transposed size.
Transposed(img) == [img EXCEPT !.size = <<img.size[2], img.size[1]>>]

\* The image with its white dimmed to a light gray.
Dimmed(img) ==
    [img EXCEPT !.data = [i \in 1 .. Len(img.data) |->
                            IF img.data[i] = 255 THEN 200 ELSE img.data[i]]]

\* The image saved as a grayscale PNG, one byte per pixel.
Grayscale(img) ==
    [ctype |-> "Gray8", size |-> img.size,
     data |-> [k \in 1 .. (Len(img.data) \div 3) |-> img.data[3 * k]]]

\* The files EG_SIMULATOR_CHECK may name: none, the rendering of the display
\* under the window's settings (image), or one that differs from it.
CheckFiles(image) ==
    {None, Some(image), Some(Altered(image)), Some(Transposed(image)),
     Some(Altered(Transposed(image)))}

\* The files EG_SIMULATOR_CHECK_RAW may name: none, the raw rendering of the
\* display (image), one that loads to the same pixels, or one that differs.
CheckRawFiles(image) ==
    {None, Some(image), Some(Altered(image)), Some(Transposed(image)),
     Some(Dimmed(image)), Some(Grayscale(image))}

\* The path each environment variable names when it is set.
PathOf(name) ==
    CASE name = "EG_SIMULATOR_CHECK" -> "check.png"
      [] name = "EG_SIMULATOR_CHECK_RAW" -> "check_raw.png"
      [] name = "EG_SIMULATOR_DUMP" -> "dump.png"
      [] name = "EG_SIMULATOR_DUMP_RAW" -> "dump_raw.png"

\* Window::new(title, &settings) was called; nothing was updated yet.
InitWindow ==
    /\ color = "BinaryColor"
    /\ \E sz \in WindowSizes : \E px \in Patterns(color, sz) :
          display = [size |-> sz, pixels |-> px]
    /\ other = None
    /\ \E scale \in 1 .. MaxScale, pixel_spacing \in 0 .. MaxSpacing,
          theme \in WindowThemes :
          settings = [scale |-> scale, pixel_spacing |-> pixel_spacing,
                      theme |-> theme, max_fps |-> 60]
    /\ offset = <<0, 0>>
    /\ output = None
    /\ result = Idle
    /\ NoBuilder
    /\ \E set \in SUBSET EnvNames :
          env = [name \in EnvNames |->
                   IF name \in set THEN Some(PathOf(name)) ELSE None]
    /\ \E styled \in {to_rgb_output_image(color, display, settings).image},
          raw \in {to_rgb_output_image(color, display, OutputSettings_default).image} :
          \E check \in (IF IsSome(env["EG_SIMULATOR_CHECK"])
                        THEN CheckFiles(styled) ELSE {None}),
             check_raw \in (IF IsSome(env["EG_SIMULATOR_CHECK_RAW"])
                            THEN CheckRawFiles(raw) ELSE {None}) :
             files = [path \in Paths |->
                        CASE path = "check.png" -> check
                          [] path = "check_raw.png" -> check_raw
                          [] OTHER -> None]
    /\ process = ProcessRunning
    /\ window = Some(Window_new(settings))
    /\ updates = 0
    /\ NoEvents

\* window.update(&display)
Update ==
    /\ Running
    /\ updates < MaxUpdates
    /\ \E r \in {Window_update(Unwrap(window), color, display, env, files, sdl_windows)} :
       /\ process' = r.process
       /\ files' = r.files
       /\ window' = Some(r.window)
       /\ result' = [op |-> "update", panicked |-> r.process.status = "panicked",
                     before |-> Unwrap(window)]
       /\ sdl_windows' = windows_built(Unwrap(window), r.window, sdl_windows)
    /\ updates' = updates + 1
    /\ UNCHANGED <<color, display, other, settings, offset, output,
                 builder_vars, env,
                 sdl_events, pump, delivered, arrivals>>

NextWindow ==
    \/ Update
    \/ Return

SpecWindow == InitWindow /\ [][NextWindow]_vars

----------------------------------------------------------------------------
(* A window that is updated again and again while the program draws: every *)
(* update draws the display on the framebuffer of the first one.            *)

FrameSizes == {<<1, 1>>, <<2, 1>>, <<1, 2>>}

\* Window::new(title, &settings) was called for a new display; no
\* environment variable is set.
InitFrames ==
    /\ color = "BinaryColor"
    /\ \E sz \in FrameSizes : display = new(color, sz)
    /\ other = None
    /\ \E scale \in {1, MaxScale}, pixel_spacing \in {0, MaxSpacing},
          theme \in WindowThemes :
          settings = [scale |-> scale, pixel_spacing |-> pixel_spacing,
                      theme |-> theme, max_fps |-> 60]
    /\ offset = <<0, 0>>
    /\ output = None
    /\ result = Idle
    /\ NoBuilder
    /\ env = [name \in EnvNames |-> None]
    /\ files = [path \in Paths |-> None]
    /\ process = ProcessRunning
    /\ window = Some(Window_new(settings))
    /\ updates = 0
    /\ NoEvents

\* let display = SimulatorDisplay::new(sz): the program goes on with a
\* display of another size, which the next update is called with.
NewDisplay(sz) ==
    /\ Running
    /\ sz # display.size
    /\ display' = new(color, sz)
    /\ UNCHANGED <<color, other, settings, offset, output, result,
                 builder_vars, shell_vars,
                 event_vars>>

NextFrames ==
    \/ Running /\ \E batch \in SinglePixels(color, display.size) : DrawIter(batch)
    \/ Running /\ \E sz \in FrameSizes : NewDisplay(sz)
    \/ Update
    \/ Return

SpecFrames == InitFrames /\ [][NextFrames]_vars

----------------------------------------------------------------------------
(* Mouse positions of a MultiWindow translated to a display added to it.   *)

MouseSizes == {<<0, 0>>, <<1, 1>>, <<2, 1>>, <<1, 2>>, <<2, 2>>}

\* The size of the window, which holds every display at every offset.
MultiWindowSize ==
    <<MaxOffset + 2 * (MaxScale + MaxSpacing), MaxOffset + 2 * (MaxScale + MaxSpacing)>>

\* Window coordinates up to one pixel pitch around every output area.
MouseCoordinates ==
    (0 - (MaxScale + MaxSpacing)) .. (MultiWindowSize[1] + MaxScale + MaxSpacing)

InitMouse ==
    /\ color = "BinaryColor"
    /\ \E sz \in MouseSizes : display = new(color, sz)
    /\ other = None
    /\ \E scale \in 1 .. MaxScale, pixel_spacing \in 0 .. MaxSpacing :
          settings = [scale |-> scale, pixel_spacing |-> pixel_spacing,
                      theme |-> [kind |-> "Default"], max_fps |-> 60]
    /\ offset \in Offsets
    /\ output = None
    /\ result = Idle
    /\ NoBuilder
    /\ env = [name \in EnvNames |-> None]
    /\ files = [path \in Paths |-> None]
    /\ process = ProcessRunning
    /\ window = Some(MultiWindow_new(MultiWindowSize, 0))
    /\ updates = 0
    /\ NoArrivals
    /\ sdl_windows = 1

\* window.add_display(&display, offset, &settings)
AddDisplay ==
    /\ Running
    /\ window' = Some(add_display(Unwrap(window), "display", offset, settings))
    /\ result' = [op |-> "add_display", panicked |-> FALSE]
    /\ UNCHANGED <<color, display, other, settings, offset, output,
                 builder_vars, env, files, process, updates,
                 event_vars>>

\* window.translate_mouse_position(&display, position)
TranslateMousePosition(position) ==
    /\ LET r == translate_mouse_position(Unwrap(window), "display", display, position) IN
       result' = [op |-> "translate_mouse_position", panicked |-> r.panicked,
                  position |-> position, value |-> r.value]
    /\ UNCHANGED <<color, display, other, settings, offset, output,
                 builder_vars, shell_vars,
                 event_vars>>

NextMouse ==
    \/ AddDisplay
    \/ Running /\ \E position \in MouseCoordinates \X MouseCoordinates :
                     TranslateMousePosition(position)
    \/ Return

SpecMouse == InitMouse /\ [][NextMouse]_vars

----------------------------------------------------------------------------
(* A MultiWindow with two displays: cleared, updated display by display    *)
(* and flushed.  The calls that change the framebuffer are recorded.       *)

\* The size of the window: some output areas reach over its edges.
MultiSize == <<5, 4>>

\* The first display, its scale and spacing, and its offset.
MultiDisplays ==
    {[size |-> <<1, 1>>, pixels |-> <<On>>],
     [size |-> <<2, 1>>, pixels |-> <<On, Off>>]}

MultiSettings ==
    {[scale |-> scale, pixel_spacing |-> pixel_spacing,
      theme |-> [kind |-> "Default"], max_fps |-> 60] :
        scale \in {1, MaxScale}, pixel_spacing \in {0, MaxSpacing}}

MultiOffsets == {<<0, 0>>, <<MaxOffset, MaxOffset>>}

\* The second display and the entries it is added with.
OtherDisplay == [size |-> <<1, 2>>, pixels |-> <<On, Off>>]

OtherEntries ==
    {[offset |-> <<0, 3>>,
      output_settings |-> [scale |-> 1, pixel_spacing |-> 0,
                           theme |-> [kind |-> "LcdBlue"], max_fps |-> 60]],
     [offset |-> <<3, 2>>,
      output_settings |-> [scale |-> 2, pixel_spacing |-> 0,
                           theme |-> [kind |-> "Inverted"], max_fps |-> 60]]}

\* The display an id names.
DisplayOf(id) == IF id = "display" THEN display ELSE Unwrap(other)

InitMulti ==
    /\ color = "BinaryColor"
    /\ display \in MultiDisplays
    /\ other = Some(OtherDisplay)
    /\ settings \in MultiSettings
    /\ offset \in MultiOffsets
    /\ output = None
    /\ result = Idle
    /\ NoBuilder
    /\ env = [name \in EnvNames |-> None]
    /\ files = [path \in Paths |-> None]
    /\ process = ProcessRunning
    /\ window = Some(MultiWindow_new(MultiSize, 0))
    /\ updates = 0
    /\ NoArrivals
    /\ sdl_windows = 1

\* window.add_display(&other, offset, &settings) of the second display,
\* which is added once.
AddOther ==
    /\ Running
    /\ "other" \notin DOMAIN Unwrap(window).displays
    /\ \E entry \in OtherEntries :
          window' = Some(add_display(Unwrap(window), "other", entry.offset,
                                     entry.output_settings))
    /\ result' = [op |-> "add_display", panicked |-> FALSE]
    /\ UNCHANGED <<color, display, other, settings, offset, output,
                 builder_vars, env, files, process, updates,
                 event_vars>>

\* window.clear(color)
ClearWindow ==
    /\ Running
    /\ Len(calls) < MaxCalls
    /\ \E r \in {MultiWindow_clear(Unwrap(window), ClearColor)} :
          /\ window' = Some(r.window)
          /\ result' = [op |-> "clear", panicked |-> r.panicked]
    /\ calls' = Append(calls, "clear")
    /\ UNCHANGED <<color, display, other, settings, offset, output,
                 builder, env, files, process, updates,
                 event_vars>>

\* window.update_display(&display) of the first or the second display
UpdateDisplay ==
    /\ Running
    /\ Len(calls) < MaxCalls
    /\ \E id \in DisplayIds :
          \E r \in {update_display(Unwrap(window), id, color, DisplayOf(id))} :
             /\ window' = Some(r.window)
             /\ result' = [op |-> "update_display", panicked |-> r.panicked,
                           id |-> id, before |-> Unwrap(window).framebuffer.data]
             /\ calls' = Append(calls, id)
    /\ UNCHANGED <<color, display, other, settings, offset, output,
                 builder, env, files, process, updates,
                 event_vars>>

\* window.flush()
Flush ==
    /\ Running
    /\ window' = Some(flush(Unwrap(window)))
    /\ result' = [op |-> "flush", panicked |-> FALSE]
    /\ UNCHANGED <<color, display, other, settings, offset, output,
                 builder_vars, env, files, process, updates,
                 event_vars>>

NextMulti ==
    \/ AddDisplay
    \/ AddOther
    \/ ClearWindow
    \/ UpdateDisplay
    \/ Flush
    \/ Return

SpecMulti == InitMulti /\ [][NextMulti]_vars

----------------------------------------------------------------------------
(* The windows of one thread polling their events while SDL events arrive.  *)

\* The ids of the SDL windows of the thread, and those of them the user
\* directs events at.
PollingWindows == {canvas_window_id(built) : built \in 0 .. 2}

EventWindows == {1, 2}

\* An SDL event of the k-th arrival.
Event(k, i, w, kind, keycode) ==
    [n |-> <<k, i>>, window |-> w, kind |-> kind, keycode |-> keycode,
     keymod |-> 0, repeat |-> FALSE, position |-> <<3, 1>>,
     mouse_btn |-> "Left", direction |-> "Normal"]

\* The kinds of the events of a burst, in turn.
BurstKinds == <<"KeyDown", "KeyUp", "MouseButtonDown", "MouseButtonUp", "MouseWheel">>

BurstKind(i) == BurstKinds[((i - 1) % Len(BurstKinds)) + 1]

\* What arrives at once: one event (a quit, an Escape key, a mouse motion or
\* a window event), or a burst of key and mouse events for window 2 that is
\* larger than the pump.
Arriving(k) ==
    {<<Event(k, 1, None, "Quit", None)>>}
    \cup {<<Event(k, 1, Some(w), "KeyDown", Some("Escape"))>> : w \in EventWindows}
    \cup {<<Event(k, 1, Some(1), "MouseMotion", None)>>,
          <<Event(k, 1, Some(2), "Window", None)>>}
    \cup {[i \in 1 .. (MAXIMUM_GLOBAL_EVENT_PUMP_SIZE + 1) |->
             Event(k, i, Some(2), BurstKind(i),
                   IF BurstKind(i) \in {"KeyDown", "KeyUp"} THEN Some("A") ELSE None)]}

InitEvents ==
    /\ color = "BinaryColor"
    /\ display = new(color, <<0, 0>>)
    /\ other = None
    /\ settings = [scale |-> MaxScale, pixel_spacing |-> 0,
                   theme |-> [kind |-> "Default"], max_fps |-> 60]
    /\ offset = <<0, 0>>
    /\ output = None
    /\ result = Idle
    /\ NoBuilder
    /\ NoShell
    /\ NoArrivals
    /\ sdl_windows = Cardinality(PollingWindows)

\* SDL queues the events of the user, whatever the thread is doing.
Arrive ==
    /\ arrivals < MaxArrivals
    /\ \E events \in Arriving(arrivals + 1) : sdl_events' = sdl_events \o events
    /\ arrivals' = arrivals + 1
    /\ UNCHANGED <<color, display, other, settings, offset, output, result,
                 builder_vars, shell_vars, pump, delivered, sdl_windows>>

\* The log of what a call took, for the window that called.
Taken(window_id, events) == [i \in 1 .. Len(events) |-> <<window_id, events[i]>>]

\* sdl_window.events(&settings) of one of the windows
Events ==
    /\ Running
    /\ \E window_id \in PollingWindows :
          \E r \in {SdlWindow_events(window_id, settings, sdl_events, pump)} :
             /\ pump' = r.pump
             /\ delivered' = delivered \o Taken(window_id, r.events)
             /\ result' = [op |-> "events", panicked |-> FALSE,
                           window_id |-> window_id,
                           events |-> r.events,
                           simulator_events |-> r.simulator_events,
                           polled |-> sdl_events, retained |-> pump]
    /\ sdl_events' = <<>>
    /\ UNCHANGED <<color, display, other, settings, offset, output,
                 builder_vars, shell_vars, arrivals, sdl_windows>>

NextEvents ==
    \/ Arrive
    \/ Events
    \/ Return

SpecEvents == InitEvents /\ [][NextEvents]_vars

----------------------------------------------------------------------------
(* A window that shows a static display until it is closed.                *)

\* The numbers of SDL windows the program has built before this one: none,
\* or three.
OtherWindows == {0, 3}

\* The id SDL gave the SDL window of the Window, once update has built it.
StaticWindowId == Unwrap(Unwrap(window).sdl_window).id

InitStatic ==
    /\ color = "BinaryColor"
    /\ display = [size |-> <<2, 1>>, pixels |-> <<On, Off>>]
    /\ other = None
    /\ settings = [scale |-> MaxScale, pixel_spacing |-> MaxSpacing,
                   theme |-> [kind |-> "Default"], max_fps |-> 60]
    /\ offset = <<0, 0>>
    /\ output = None
    /\ result = Idle
    /\ NoBuilder
    /\ env = [name \in EnvNames |-> None]
    /\ files = [path \in Paths |-> None]
    /\ process = ProcessRunning
    /\ window = Some(Window_new(settings))
    /\ updates = 0
    /\ NoArrivals
    /\ sdl_windows \in OtherWindows

\* window.show_static(&display), up to its loop: self.update(display).
ShowStatic ==
    /\ Running
    /\ updates < MaxUpdates
    /\ \E r \in {Window_update(Unwrap(window), color, display, env, files, sdl_windows)} :
       /\ process' = r.process
       /\ files' = r.files
       /\ window' = Some(r.window)
       /\ result' = [op |-> "show_static",
                     panicked |-> r.process.status = "panicked",
                     pc |-> "polling", events |-> <<>>,
                     first |-> Len(delivered), updates |-> updates]
       /\ sdl_windows' = windows_built(Unwrap(window), r.window, sdl_windows)
    /\ updates' = updates + 1
    /\ UNCHANGED <<color, display, other, settings, offset, output,
                 builder_vars, env,
                 sdl_events, pump, delivered, arrivals>>

\* One turn of the loop of show_static: self.events() is polled, a Quit
\* among its events breaks the loop, otherwise the thread sleeps 20 ms and
\* the loop goes on.
ShowStaticPoll ==
    /\ result.op = "show_static"
    /\ ~result.panicked
    /\ result.pc = "polling"
    /\ process.status = "running"
    /\ \E r \in {Window_events(Unwrap(window), sdl_events, pump)} :
       /\ pump' = r.pump
       /\ delivered' = delivered \o Taken(StaticWindowId, r.events)
       /\ result' = [result EXCEPT
                       !.pc = IF show_static_quit(r.simulator_events)
                              THEN "returned" ELSE "polling",
                       !.events = r.events]
    /\ sdl_events' = <<>>
    /\ UNCHANGED <<color, display, other, settings, offset, output,
                 builder_vars, shell_vars, arrivals, sdl_windows>>

NextStatic ==
    \/ Arrive
    \/ ShowStatic
    \/ ShowStaticPoll
    \/ Return

SpecStatic == InitStatic /\ [][NextStatic]_vars

\* The loop of show_static never blocks: after each poll without a Quit it
\* sleeps 20 ms and polls again.
SpecStaticFair == SpecStatic /\ WF_vars(ShowStaticPoll)

----------------------------------------------------------------------------
(* Properties. *)

\* C1: after draw_display onto an image that contains the whole display
\* area, for every scale >= 1, every spacing >= 0 and every display point p,
\* each image pixel of the scale x scale block whose top-left corner is
\* position + p * (scale + spacing) holds the output colour of p, also for
\* scale 1 with a spacing above 0.
C1_BlocksHoldPixelColour ==
    (/\ result.op = "draw_display"
     /\ settings.scale >= 1
     /\ AreaInside(Unwrap(output), offset, output_size(display, settings)))
    => /\ ~result.panicked
       /\ \A p \in BoxPoints(display.size) :
            \A dx \in 0 .. settings.scale - 1, dy \in 0 .. settings.scale - 1 :
               image_pixel(
                 Unwrap(output),
                 offset[1] + p[1] * (settings.scale + settings.pixel_spacing) + dx,
                 offset[2] + p[2] * (settings.scale + settings.pixel_spacing) + dy)
               = output_color(Unwrap(output).ctype, color, display, settings, p)

\* C2: after a full render with a spacing above 0 (any scale >= 1), every
\* image pixel of the display area that lies in a gutter (its x or y offset
\* modulo scale + spacing is at least scale) holds the background colour,
\* the theme's conversion of black.
C2_GuttersHoldBackground ==
    (/\ result.op = "draw_display"
     /\ settings.scale >= 1
     /\ settings.pixel_spacing > 0
     /\ AreaInside(Unwrap(output), offset, output_size(display, settings)))
    => /\ ~result.panicked
       /\ \A x \in 0 .. output_size(display, settings)[1] - 1 :
            \A y \in 0 .. output_size(display, settings)[2] - 1 :
               (\/ x % (settings.scale + settings.pixel_spacing) >= settings.scale
                \/ y % (settings.scale + settings.pixel_spacing) >= settings.scale)
               => image_pixel(Unwrap(output), offset[1] + x, offset[2] + y)
                  = output_bytes(Unwrap(output).ctype, convert(settings.theme, BLACK))

\* C3: for every display size (w, h) and all settings the framebuffer size is
\* (w * scale + max(w - 1, 0) * spacing, h * scale + max(h - 1, 0) * spacing),
\* axis by axis; an axis of length 0 gives 0, and the last block of an axis
\* ends at the edge: (w - 1) * (scale + spacing) + scale is the output width.
C3_FramebufferSize ==
    result.op = "framebuffer_size" =>
        \A axis \in {1, 2} :
            LET len == display.size[axis]
                out == result.value[axis]
            IN  /\ out = len * settings.scale
                         + Max(len - 1, 0) * settings.pixel_spacing
                /\ (len = 0 => out = 0)
                /\ (len >= 1 =>
                      (len - 1) * (settings.scale + settings.pixel_spacing)
                        + settings.scale = out)

\* C3 witness: the size of a display with several columns and one row was
\* computed with a spacing above 0.
C3_Witness ==
    /\ result.op = "framebuffer_size"
    /\ display.size[1] >= 2 /\ display.size[2] = 1
    /\ settings.scale = 2 /\ settings.pixel_spacing = 1
    /\ result.value = <<display.size[1] * 3 - 1, 2>>

\* The bytes an output image holds for a display pixel of value v under the
\* default settings: R, G, B for Rgb888, the luma for Gray8.
DefaultBytes(ctype, c, v) ==
    IF ctype = "Rgb888" THEN ToRgb888(c, v) ELSE <<luma(ToRgb888(c, v))>>

\* C4: with the default output settings to_rgb_output_image and
\* to_grayscale_output_image return an image of the display's size whose data
\* is the row-major sequence of the converted colours of the pixels, 3 bytes
\* per pixel for RGB and 1 byte for grayscale; a BinaryColor display gives
\* 255s for On and 0s for Off.
C4_DefaultOutputImage ==
    (/\ result.op \in {"to_rgb_output_image", "to_grayscale_output_image"}
     /\ settings = OutputSettings_default)
    => /\ ~result.panicked
       /\ result.image.ctype =
            (IF result.op = "to_rgb_output_image" THEN "Rgb888" ELSE "Gray8")
       /\ result.image.size = display.size
       /\ result.image.data =
            Flatten([k \in 1 .. Len(display.pixels) |->
                       DefaultBytes(result.image.ctype, color, display.pixels[k])])
       /\ color = "BinaryColor" =>
            \A k \in 1 .. Len(display.pixels) :
               LET n == BYTES_PER_PIXEL(result.image.ctype) IN
               \A i \in 1 .. n :
                  result.image.data[(k - 1) * n + i]
                    = (IF display.pixels[k] = On THEN 255 ELSE 0)

\* C4 witness: the RGB image of a 2 x 2 BinaryColor display with On and Off
\* pixels was made with the default settings.
C4_Witness ==
    /\ result.op = "to_rgb_output_image"
    /\ settings = OutputSettings_default
    /\ color = "BinaryColor"
    /\ display.size = <<2, 2>>
    /\ display.pixels = <<Off, On, On, Off>>
    /\ result.image.data = <<0, 0, 0, 255, 255, 255, 255, 255, 255, 0, 0, 0>>

\* C5: after draw_iter over a sequence of (point, colour) pairs, every point
\* p of the display reads the colour of the last pair addressing p, and the
\* value it had before the call when no pair addresses it.
C5_LastWriteWins ==
    result.op = "draw_iter" =>
        /\ ~result.panicked
        /\ \A p \in BoxPoints(display.size) :
              get_pixel(display, p).value =
                 (IF WritesTo(result.pixels, p) # {}
                  THEN Some(result.pixels[Last(WritesTo(result.pixels, p))][2])
                  ELSE get_pixel(result.before, p).value)

\* C5 witness: one call wrote two different colours to the same cell of the
\* second row of a display.
C5_Witness ==
    /\ result.op = "draw_iter"
    /\ display.size = <<2, 2>>
    /\ Len(result.pixels) = 2
    /\ result.pixels[1] = <<<<1, 1>>, On>>
    /\ result.pixels[2] = <<<<1, 1>>, Off>>
    /\ result.before.pixels[4] = On
    /\ display.pixels[4] = Off

\* C6: draw_iter given pairs whose points are out of bounds (a negative
\* coordinate, x >= width or y >= height) leaves every cell unchanged, does
\* not fault and returns Ok; the out of bounds pairs of any sequence change
\* nothing, so a point with x >= width never lands in the following row.
C6_OutOfBoundsIgnored ==
    result.op = "draw_iter" =>
        /\ ~result.panicked
        /\ result.ret = Some("Ok")
        /\ display.size = result.before.size
        /\ (\A i \in 1 .. Len(result.pixels) :
               ~Contains(display.size, result.pixels[i][1]))
           => display = result.before
        /\ \A k \in 1 .. Len(display.pixels) :
              (\A i \in 1 .. Len(result.pixels) :
                  Contains(display.size, result.pixels[i][1])
                  => result.pixels[i][1] # PointAt(display.size, k))
              => display.pixels[k] = result.before.pixels[k]

\* C6 witness: a pixel at x = width of the first row was drawn with a colour
\* the first cell of the second row does not have.
C6_Witness ==
    /\ result.op = "draw_iter"
    /\ display.size = <<2, 2>>
    /\ result.pixels = <<<<<<2, 0>>, On>>>>
    /\ result.before.pixels[3] = Off
    /\ display.pixels[3] = Off
    /\ result.ret = Some("Ok")

\* C7: get_pixel panics for every point outside the display and never for a
\* point inside it, in every state reached by construction and draws.
C7_GetPixelPanics ==
    result.op = "get_pixel" =>
        /\ result.panicked <=> ~Contains(display.size, result.point)
        /\ ~result.panicked =>
              result.value = Some(display.pixels[
                  result.point[1] + result.point[2] * display.size[1] + 1])

\* C7 witness: get_pixel of the point right of the first row panicked on a
\* display that has been drawn on.
C7_Witness ==
    /\ result.op = "get_pixel"
    /\ display.size = <<2, 2>>
    /\ display.pixels = <<Off, On, On, Off>>
    /\ result.point = <<2, 0>>
    /\ result.panicked

\* C8: for two displays of the same size diff returns None exactly when all
\* corresponding cells are equal; otherwise a BinaryColor display of the same
\* size in which the cell p is On if and only if the two displays differ at p.
C8_DiffMask ==
    (/\ result.op = "diff"
     /\ display.size = Unwrap(other).size)
    => /\ ~result.panicked
       /\ (result.value = None) <=> (display.pixels = Unwrap(other).pixels)
       /\ \A mask \in result.value :
            /\ mask.size = display.size
            /\ Len(mask.pixels) = display.size[1] * display.size[2]
            /\ \A p \in BoxPoints(display.size) :
                  /\ get_pixel(mask, p).value \in {Some(On), Some(Off)}
                  /\ (get_pixel(mask, p).value = Some(On))
                     <=> (get_pixel(display, p).value
                          # get_pixel(Unwrap(other), p).value)

\* C8 witness: two 2 x 2 displays that differ in one cell were compared and
\* the mask has that one cell On.
C8_Witness ==
    /\ result.op = "diff"
    /\ display.size = <<2, 2>>
    /\ Unwrap(other).pixels = <<On, On, Off, On>>
    /\ display.pixels = <<On, On, On, On>>
    /\ result.value = Some([size |-> <<2, 2>>, pixels |-> <<Off, Off, On, Off>>])

\* C9: diff panics, with a message naming both sizes as WxH, whenever the two
\* displays differ in width or in height, also when their pixel counts are
\* equal; it returns no result for such displays.
C9_DiffWrongSize ==
    (/\ result.op = "diff"
     /\ display.size # Unwrap(other).size)
    => /\ result.panicked
       /\ result.value = None
       /\ result.message =
            <<"both displays must have the same size (self: {}x{}, other: {}x{})",
              display.size[1], display.size[2],
              Unwrap(other).size[1], Unwrap(other).size[2]>>

\* C9 witness: a 2 x 1 display was compared with a 1 x 2 display.
C9_Witness ==
    /\ result.op = "diff"
    /\ display.size = <<2, 1>>
    /\ Unwrap(other).size = <<1, 2>>
    /\ result.panicked

\* C10: for colours of 1, 2 or 4 bits the three byte orders return the same
\* bytes: the rows follow each other, each row has ceil(width * bpp / 8)
\* bytes, the pixel i of a row is the (i mod (8 / bpp))-th field from the
\* most significant bit of the byte i div (8 / bpp) of the row, and the
\* unused low bits of the last byte of a row are 0.
C10_PackedRows ==
    (/\ result.op = "to_bytes"
     /\ BITS_PER_PIXEL(color) < 8)
    => LET bpp == BITS_PER_PIXEL(color)
           per_byte == 8 \div bpp
           row_len == (display.size[1] * bpp + 7) \div 8
           used == display.size[1] - (row_len - 1) * per_byte
       IN  /\ ~result.panicked
           /\ Len(result.value) = display.size[2] * row_len
           /\ \A p \in BoxPoints(display.size) :
                 LET byte == result.value[p[2] * row_len + (p[1] \div per_byte) + 1]
                     field == p[1] % per_byte
                 IN  (byte \div (2 ^ (8 - bpp * (field + 1)))) % (2 ^ bpp)
                     = display.pixels[p[1] + p[2] * display.size[1] + 1]
           /\ \A y \in 1 .. display.size[2] :
                 result.value[y * row_len] % (2 ^ (8 - bpp * used)) = 0
           /\ \A b \in 1 .. Len(result.value) : result.value[b] \in 0 .. 255

\* What holds instead: the layout of C10 for every display with a width of
\* one pixel or more; a display of width 0 makes to_bytes panic (C29).
C10_PackedRowsUnlessZeroWidth == display.size[1] >= 1 => C10_PackedRows

\* C10 witness: the little endian export of a 2 bit display of width 5 and
\* two rows gave two bytes per row, the fifth pixel in the second byte.
C10_Witness ==
    /\ result.op = "to_bytes"
    /\ result.order = "le"
    /\ color = "Gray2"
    /\ display.size = <<5, 2>>
    /\ display.pixels = <<0, 1, 2, 3, 0, 1, 2, 3, 0, 1>>
    /\ result.value = <<27, 0, 108, 64>>

\* The bytes of a sequence in reverse order.
Reverse(seq) == [i \in 1 .. Len(seq) |-> seq[Len(seq) + 1 - i]]

\* The big endian bytes of a colour of 8, 16 or 24 bits: the raw value, most
\* significant byte first (for Rgb888: R, G, B).
BigEndian(c, v) ==
    CASE c = "Gray8" -> <<v>>
      [] c = "Rgb565" -> <<v \div 256, v % 256>>
      [] c = "Rgb888" -> <<v[1], v[2], v[3]>>

\* C11: for colours of 8, 16 or 24 bits to_be_bytes and to_le_bytes return
\* width * height * k bytes, k = bpp / 8, without row padding; the pixel i
\* (row-major, from 0) has the bytes i * k .. (i + 1) * k - 1, big endian for
\* to_be_bytes and the same k bytes reversed for to_le_bytes; for a colour of
\* 8 bits the three byte orders give the same bytes.
C11_WideBytes ==
    (/\ result.op = "to_bytes"
     /\ BITS_PER_PIXEL(color) >= 8)
    => LET k == BITS_PER_PIXEL(color) \div 8
           piece(i) == SubSeq(result.value, i * k + 1, (i + 1) * k)
       IN  /\ ~result.panicked
           /\ result.order \in {"be", "le"} \/ k = 1 =>
                 /\ Len(result.value) = display.size[1] * display.size[2] * k
                 /\ \A i \in 0 .. Len(display.pixels) - 1 :
                       piece(i) = (IF result.order = "le"
                                   THEN Reverse(BigEndian(color, display.pixels[i + 1]))
                                   ELSE BigEndian(color, display.pixels[i + 1]))
           /\ k = 1 => result.value = display.pixels

\* C11 witness: the little endian export of the two Rgb565 pixels of the
\* to_bytes_u16 test gave 00 80 01 00.
C11_Witness ==
    /\ result.op = "to_bytes"
    /\ result.order = "le"
    /\ color = "Rgb565"
    /\ display.size = <<2, 1>>
    /\ display.pixels = <<Rgb565_new(16, 0, 0), Rgb565_new(0, 0, 1)>>
    /\ result.value = <<0, 128, 1, 0>>

\* C12: for every RGB colour (r, g, b) the Default theme's convert returns
\* the colour unchanged and the Inverted theme's convert returns
\* (255 - r, 255 - g, 255 - b), each channel again in 0 .. 255.
C12_DefaultAndInverted ==
    result.op = "convert" =>
        /\ settings.theme.kind = "Default" => result.value = result.rgb
        /\ settings.theme.kind = "Inverted" =>
              /\ result.value = <<255 - result.rgb[1], 255 - result.rgb[2],
                                  255 - result.rgb[3]>>
              /\ \A i \in 1 .. 3 : result.value[i] \in 0 .. 255

\* C12 witness: the Inverted theme converted a colour with the channels 0,
\* 255 and 1.
C12_Witness ==
    /\ result.op = "convert"
    /\ settings.theme.kind = "Inverted"
    /\ result.rgb = <<0, 255, 1>>
    /\ result.value = <<255, 0, 254>>

\* The off and on colours of a theme: the colours it gives the Off and the On
\* pixels of a BinaryColor display (the documented pairs of the presets, the
\* two fields of Custom, black and white for Default, white and black for
\* Inverted).
ThemeOff(theme) ==
    CASE theme.kind = "Default" -> BLACK
      [] theme.kind = "Inverted" -> WHITE
      [] theme.kind = "Custom" -> theme.color_off
      [] theme.kind = "LcdWhite" -> <<245, 245, 245>>
      [] theme.kind = "LcdGreen" -> <<120, 185, 50>>
      [] theme.kind = "LcdBlue" -> <<70, 80, 230>>
      [] theme.kind = "OledBlue" -> <<0, 20, 40>>
      [] theme.kind = "OledWhite" -> <<20, 20, 20>>

ThemeOn(theme) ==
    CASE theme.kind = "Default" -> WHITE
      [] theme.kind = "Inverted" -> BLACK
      [] theme.kind = "Custom" -> theme.color_on
      [] theme.kind = "LcdWhite" -> <<32, 32, 32>>
      [] theme.kind = "LcdGreen" -> <<32, 32, 32>>
      [] theme.kind = "LcdBlue" -> <<230, 230, 255>>
      [] theme.kind = "OledBlue" -> <<0, 210, 255>>
      [] theme.kind = "OledWhite" -> WHITE

\* convert classified the colour: black gave the off colour, any other
\* colour the on colour.
Classified ==
    /\ result.value = (IF result.rgb = BLACK THEN ThemeOff(settings.theme)
                       ELSE ThemeOn(settings.theme))
    /\ result.value \in {ThemeOff(settings.theme), ThemeOn(settings.theme)}

\* C13 as stated: convert is a binary classification for the Custom theme
\* and for every named theme: black maps to the theme's off colour and every
\* other colour to its on colour.
C13_EveryThemeClassifies ==
    result.op = "convert" => Classified

\* C13, amended: convert is a binary classification for the Custom theme and
\* for the five two-colour presets (LcdWhite, LcdGreen, LcdBlue, OledBlue,
\* OledWhite): exactly black maps to the off colour, every other colour to
\* the on colour.  Default and Inverted classify nothing: they pass on or
\* invert every channel.
C13_TwoColourThemesClassify ==
    (/\ result.op = "convert"
     /\ settings.theme.kind \notin {"Default", "Inverted"})
    => Classified

\* C13 witness: a preset converted a colour that is nearly black to its on
\* colour.
C13_Witness ==
    /\ result.op = "convert"
    /\ settings.theme.kind = "LcdBlue"
    /\ result.rgb = <<0, 0, 1>>
    /\ result.value = <<230, 230, 255>>

\* The image after drawing Pixel(p, colour) for every point p of the area,
\* one by one.
\* The row y of the area from its column x on, then the rows from y on: one
\* draw_iter call per point, in the order of Rectangle::points.  (Each step
\* reads the length of the data it got, so that the image of a step is
\* evaluated before the next step starts.)
RECURSIVE DrawnRow(_, _, _, _, _)
DrawnRow(img, area, bytes, y, x) ==
    IF Len(img.data) >= 0 /\ x < area.top_left[1] + area.size[1]
    THEN LET drawn == image_draw_iter(img, <<<<<<x, y>>, bytes>>>>).image IN
         DrawnRow([drawn EXCEPT !.data = SubSeq(drawn.data, 1, Len(drawn.data))],
                  area, bytes, y, x + 1)
    ELSE img

RECURSIVE DrawnRows(_, _, _, _)
DrawnRows(img, area, bytes, y) ==
    IF Len(img.data) >= 0 /\ y < area.top_left[2] + area.size[2]
    THEN DrawnRows(DrawnRow(img, area, bytes, y, area.top_left[1]),
                   area, bytes, y + 1)
    ELSE img

DrawnPixelByPixel(img, area, bytes) == DrawnRows(img, area, bytes, area.top_left[2])

\* C14: fill_solid(area, colour) on an Rgb888 or Gray8 image does not fault
\* and leaves the data as drawing Pixel(p, colour) for every point p of the
\* area leaves it, for areas of at least 16 x 16 and for smaller ones, for
\* areas partly or wholly outside the image; every byte outside the area
\* clipped to the image keeps its value.
C14_FillSolidAsPixels ==
    result.op = "fill_solid" =>
        LET img == Unwrap(output)
            n == BYTES_PER_PIXEL(img.ctype)
        IN  /\ ~result.panicked
            /\ img = DrawnPixelByPixel(result.before, result.area, result.bytes)
            /\ \A x \in 0 .. img.size[1] - 1, y \in 0 .. img.size[2] - 1 :
                  ~rect_contains(result.area, <<x, y>>)
                  => image_pixel(img, x, y) = image_pixel(result.before, x, y)

\* C15: OutputImage::draw_iter writes an in-bounds pixel (x, y) at the pixel
\* index x + y * width, as the 3 bytes R, G, B for Rgb888 and as 1 byte for
\* Gray8, and changes no other byte; pixels with a negative coordinate,
\* x >= width or y >= height are ignored: no fault, no byte altered.
C15_ImageDrawIter ==
    result.op = "image_draw_iter" =>
        LET img == Unwrap(output)
            n == IF img.ctype = "Rgb888" THEN 3 ELSE 1
            written == {result.pixels[k][1] : k \in 1 .. Len(result.pixels)}
            stored == IF img.ctype = "Rgb888"
                      THEN <<DrawnColor("Rgb888")[1], DrawnColor("Rgb888")[2],
                             DrawnColor("Rgb888")[3]>>
                      ELSE <<DrawnColor("Gray8")>>
        IN  /\ ~result.panicked
            /\ img.size = result.before.size
            /\ Len(img.data) = Len(result.before.data)
            /\ \A x \in 0 .. img.size[1] - 1, y \in 0 .. img.size[2] - 1 :
                  SubSeq(img.data, (x + y * img.size[1]) * n + 1,
                         (x + y * img.size[1]) * n + n)
                  = (IF <<x, y>> \in written THEN stored
                     ELSE SubSeq(result.before.data, (x + y * img.size[1]) * n + 1,
                                 (x + y * img.size[1]) * n + n))
            /\ (\A p \in written : ~Contains(img.size, p)) => img = result.before

\* C15 witness: an Rgb888 image of width 3 got a pixel at (2, 0) and one at
\* (3, 0), right of the image; only the bytes 6 .. 8 changed.
C15_Witness ==
    /\ result.op = "image_draw_iter"
    /\ Unwrap(output).ctype = "Rgb888"
    /\ Unwrap(output).size = <<3, 1>>
    /\ result.before.data = <<0, 0, 0, 0, 0, 0, 0, 0, 0>>
    /\ result.pixels = <<<<<<2, 0>>, <<18, 52, 86>>>>, <<<<3, 0>>, <<18, 52, 86>>>>>>
    /\ Unwrap(output).data = <<0, 0, 0, 0, 0, 0, 18, 52, 86>>

\* C16: OutputSettingsBuilder::scale(0) panics with "scale must be > 0";
\* every OutputSettings that build() returns, after any sequence of builder
\* calls, has a scale of at least 1, so the settings built never hold 0.
C16_ScaleZeroRejected ==
    /\ result.op = "scale" =>
          /\ result.scale = 0
          /\ result.panicked
          /\ result.message = "scale must be > 0"
    /\ \A i \in 1 .. Len(calls) : calls[i][1] = "scale" => calls[i][2] >= 1
    /\ \A scale \in builder.scale : scale >= 1
    /\ result.op = "build" => result.value.scale >= 1
    /\ settings.scale >= 1

\* C16 witness: scale(0) was called after another setter and panicked.
C16_Witness ==
    /\ result.op = "scale"
    /\ result.scale = 0
    /\ result.panicked
    /\ Len(calls) >= 1

\* The calls of a history that are calls of the setter named.
CallsOf(history, setter) == {i \in 1 .. Len(history) : history[i][1] = setter}

\* The argument of the last call of a setter, or a default without a call.
LastArg(history, setter, default) ==
    IF CallsOf(history, setter) = {} THEN default
    ELSE history[Last(CallsOf(history, setter))][2]

\* C17: without a setter call build() gives scale 1, spacing 0, the Default
\* theme and max_fps 60; theme() makes the built scale 3 and the built
\* spacing 1 exactly when no scale (no spacing) was specified explicitly; an
\* explicit scale or spacing is the value built, called before or after
\* theme(): the built settings are a function of the last argument of each
\* setter, not of the order of the different setters.
C17_BuilderDefaults ==
    result.op = "build" =>
        LET themed == CallsOf(result.calls, "theme") # {} IN
        /\ result.value.scale =
              LastArg(result.calls, "scale", IF themed THEN 3 ELSE 1)
        /\ result.value.pixel_spacing =
              LastArg(result.calls, "pixel_spacing", IF themed THEN 1 ELSE 0)
        /\ result.value.theme = LastArg(result.calls, "theme", [kind |-> "Default"])
        /\ result.value.max_fps = LastArg(result.calls, "max_fps", 60)
        /\ result.calls = <<>> =>
              result.value = [scale |-> 1, pixel_spacing |-> 0,
                              theme |-> [kind |-> "Default"], max_fps |-> 60]
        /\ settings = result.value

\* C17 witness: scale(2) was called before theme(), and the settings built
\* have the scale 2 and the spacing 1 of a themed display.
C17_Witness ==
    /\ result.op = "build"
    /\ result.calls = <<<<"scale", 2>>, <<"theme", [kind |-> "LcdBlue"]>>>>
    /\ result.value.scale = 2
    /\ result.value.pixel_spacing = 1

----------------------------------------------------------------------------
(* The regression hooks of Window::update. *)

IsSet(name) == IsSome(env[name])

\* The verdict of a check of something of the given size and content against
\* a reference (None: no such file): exit code 0 exactly for equal sizes and
\* equal content, else a panic with a non-zero code, which names both sizes
\* whenever they differ, whatever the content.
Verdict(size, content, reference) ==
    /\ process = Exited(0) <=>
          /\ IsSome(reference)
          /\ Unwrap(reference).size = size
          /\ Unwrap(reference).content = content
    /\ process # Exited(0) => process.status = "panicked" /\ process.code # 0
    /\ IsSome(reference) /\ Unwrap(reference).size # size =>
          process.message =
             <<"display dimensions don't match PNG dimensions (display: {}x{}, PNG: {}x{})",
               size[1], size[2],
               Unwrap(reference).size[1], Unwrap(reference).size[2]>>

\* The rendered raster against the decoded reference of EG_SIMULATOR_CHECK.
RenderedVerdict ==
    LET rendered == to_rgb_output_image(color, display, Unwrap(window).output_settings).image
        file == files["check.png"]
    IN  Verdict(rendered.size, rendered.data,
                IF IsSome(file)
                THEN Some([size |-> to_rgb8(Unwrap(file)).size,
                           content |-> to_rgb8(Unwrap(file)).data])
                ELSE None)

\* The framebuffer against the loaded reference of EG_SIMULATOR_CHECK_RAW.
RawVerdict ==
    LET loaded == load_png(color, "check_raw.png", files) IN
    Verdict(display.size, display.pixels,
            IF IsSome(loaded)
            THEN Some([size |-> Unwrap(loaded).size,
                       content |-> Unwrap(loaded).pixels])
            ELSE None)

\* C18 as stated: after the first Window::update, EG_SIMULATOR_CHECK being
\* set makes the exit code 0 exactly if the rendered raster equals the
\* reference, and EG_SIMULATOR_CHECK_RAW being set makes it 0 exactly if the
\* framebuffer equals the loaded reference; every other outcome is a panic,
\* the dimensions being asserted first with a message naming both sizes.
C18_EachCheckDecides ==
    updates >= 1 =>
       /\ IsSet("EG_SIMULATOR_CHECK") => RenderedVerdict
       /\ IsSet("EG_SIMULATOR_CHECK_RAW") => RawVerdict

\* C18, amended: the same, EG_SIMULATOR_CHECK_RAW deciding only when
\* EG_SIMULATOR_CHECK is not set; with both set the raw check never runs.
C18_FirstCheckDecides ==
    updates >= 1 =>
       /\ IsSet("EG_SIMULATOR_CHECK") => RenderedVerdict
       /\ ~IsSet("EG_SIMULATOR_CHECK") /\ IsSet("EG_SIMULATOR_CHECK_RAW") => RawVerdict

\* A scaled display was checked against a reference of the transposed size
\* with other content: the update panicked over the dimensions.
C18_Witness ==
    /\ updates = 1
    /\ result.op = "update"
    /\ IsSet("EG_SIMULATOR_CHECK")
    /\ settings.scale > 1
    /\ display.size = <<2, 1>>
    /\ files["check.png"] =
          Some(Altered(Transposed(to_rgb_output_image(color, display, settings).image)))
    /\ process.status = "panicked"
    /\ Len(process.message) = 5

\* The display rendered as the dump hooks do.
Rendering(s) == to_rgb_output_image(color, display, s).image

\* C19: with EG_SIMULATOR_DUMP or EG_SIMULATOR_DUMP_RAW set and neither check
\* variable, the first Window::update writes the display to the named file
\* (rendered with the window's settings for EG_SIMULATOR_DUMP, which is
\* served first, else with the default settings for EG_SIMULATOR_DUMP_RAW)
\* and exits with code 0; the window has no framebuffer and no SDL window,
\* and there is no second update.
C19_DumpThenExit ==
    /\ updates >= 1
    /\ ~IsSet("EG_SIMULATOR_CHECK") /\ ~IsSet("EG_SIMULATOR_CHECK_RAW")
    /\ IsSet("EG_SIMULATOR_DUMP") \/ IsSet("EG_SIMULATOR_DUMP_RAW")
    =>
    /\ updates = 1
    /\ process = Exited(0)
    /\ ~IsSome(Unwrap(window).framebuffer)
    /\ ~IsSome(Unwrap(window).sdl_window)
    /\ IF IsSet("EG_SIMULATOR_DUMP")
       THEN files = [path \in Paths |->
                       IF path = "dump.png"
                       THEN Some(Rendering(Unwrap(window).output_settings))
                       ELSE None]
       ELSE files = [path \in Paths |->
                       IF path = "dump_raw.png"
                       THEN Some(Rendering(OutputSettings_default))
                       ELSE None]

\* A themed, scaled window dumped its display raw: the file is not what the
\* window's settings render.
C19_Witness ==
    /\ updates = 1
    /\ result.op = "update"
    /\ \A name \in EnvNames : IsSet(name) <=> name = "EG_SIMULATOR_DUMP_RAW"
    /\ settings.scale > 1
    /\ settings.theme.kind = "LcdBlue"
    /\ process = Exited(0)
    /\ IsSome(files["dump_raw.png"])
    /\ files["dump_raw.png"] # Some(Rendering(settings))

----------------------------------------------------------------------------
(* Mouse positions. *)

\* Floor division: the index of the block of pitch b that holds coordinate a.
FloorDiv(a, b) == IF a >= 0 THEN a \div b ELSE -(((-a) + b - 1) \div b)

\* The display's output area in the window: the rectangle of the size of
\* its output placed at its offset.
OutputArea == Rectangle(offset, framebuffer_size(settings, display))

\* C20: translate_mouse_position of an added display returns Some(p) for a
\* position inside the display's output area, p being the pixel whose block
\* holds the position, and None for every position outside the area.
C20_MouseInsideOutputArea ==
    result.op = "translate_mouse_position" /\ ~result.panicked =>
       IF contains(OutputArea, result.position)
       THEN result.value =
               Some(<<FloorDiv(result.position[1] - offset[1], pixel_pitch(settings)),
                      FloorDiv(result.position[2] - offset[2], pixel_pitch(settings))>>)
       ELSE result.value = None

\* The part of C20 the code keeps: positions inside the output area.
C20_InsideTranslated ==
    result.op = "translate_mouse_position" /\ ~result.panicked
    /\ contains(OutputArea, result.position) =>
       result.value =
          Some(<<FloorDiv(result.position[1] - offset[1], pixel_pitch(settings)),
                 FloorDiv(result.position[2] - offset[2], pixel_pitch(settings))>>)

----------------------------------------------------------------------------
(* MultiWindow: the framebuffer and what the window presents. *)

\* What the SDL window of the MultiWindow shows, and its framebuffer.
Shown == Unwrap(window).sdl_window.shown

Framebuffer == Unwrap(window).framebuffer

Range(seq) == {seq[i] : i \in 1 .. Len(seq)}

\* C21: the window presents the framebuffer at construction; what it
\* presents changes only in a flush, which presents the framebuffer as it is
\* then, with every clear and update_display made before; update_display
\* changes nothing but the framebuffer, and panics for a display that was
\* not added.
C21_PresentedAtFlush ==
    /\ Shown = Framebuffer.data
    /\ [](result.op = "flush" => Shown = Framebuffer.data)
    /\ [](result.op = "update_display"
          /\ result.id \notin DOMAIN Unwrap(window).displays => result.panicked)
    /\ [][result'.op = "update_display" =>
             /\ Unwrap(window').sdl_window = Unwrap(window).sdl_window
             /\ Unwrap(window').displays = Unwrap(window).displays]_vars
    /\ [][Shown' # Shown =>
             /\ result'.op = "flush"
             /\ Shown' = Framebuffer.data
             /\ Framebuffer' = Framebuffer]_vars

\* A flush presented a framebuffer that was cleared and then updated with
\* both displays, which the window did not show before.
C21_Witness ==
    /\ result.op = "flush"
    /\ Len(calls) = 3
    /\ calls[1] = "clear"
    /\ Range(calls) = {"clear", "display", "other"}
    /\ Shown = Framebuffer.data
    /\ \E i \in 1 .. Len(Shown) : Shown[i] \notin {0, ClearColor[1], ClearColor[2], ClearColor[3]}

\* The output area of an added display in the window, and the display
\* rendered alone with the settings it was added with.
AreaOf(id) ==
    Rectangle(Unwrap(window).displays[id].offset,
              output_size(DisplayOf(id), Unwrap(window).displays[id].output_settings))

RenderedAlone(id) ==
    to_rgb_output_image(color, DisplayOf(id),
                        Unwrap(window).displays[id].output_settings).image

\* The pixel (x, y) of the window, which lies in the area of the display,
\* read from the display rendered alone.
RenderedPixel(id, x, y) ==
    image_pixel(RenderedAlone(id), x - AreaOf(id).top_left[1], y - AreaOf(id).top_left[2])

RasterPoints ==
    (0 .. Framebuffer.size[1] - 1) \X (0 .. Framebuffer.size[2] - 1)

Disjoint(r1, r2) ==
    \/ r1.top_left[1] + r1.size[1] <= r2.top_left[1]
    \/ r2.top_left[1] + r2.size[1] <= r1.top_left[1]
    \/ r1.top_left[2] + r1.size[2] <= r2.top_left[2]
    \/ r2.top_left[2] + r2.size[2] <= r1.top_left[2]

----------------------------------------------------------------------------
(* The global event pump. *)

\* The event is targeted at a window other than the one with this id.
ForAnother(window_id, e) == IsSome(e.window) /\ e.window # Some(window_id)

\* C27: the pump never holds more than 32 events; after an events call all
\* of them are targeted at a window other than the caller; an event for
\* another window polled in the call is in the pump unless the pump is full;
\* the events the pump held before the call are taken by the call if they
\* are for the caller, and stay in the pump if not.
C27_PumpHoldsOthersEvents ==
    /\ Len(pump) <= 32
    /\ result.op = "events" =>
          /\ \A e \in Range(pump) : ForAnother(result.window_id, e)
          /\ \A e \in Range(result.polled) :
                ForAnother(result.window_id, e) =>
                   e \in Range(pump) \/ Len(pump) = 32
          /\ \A e \in Range(result.retained) :
                IF e.window = Some(result.window_id)
                THEN e \in Range(result.events) /\ e \notin Range(pump)
                ELSE e \in Range(pump)

\* Window 2 took an event that was polled in a call of another window and
\* kept in a pump that was filled up to its limit; the event for window 1
\* in the pump stays there.
C27_Witness ==
    /\ result.op = "events"
    /\ result.window_id = 2
    /\ Len(result.retained) = 32
    /\ \E e \in Range(result.retained) :
          e.window = Some(2) /\ e.keycode = Some("Escape") /\ e \in Range(result.events)
    /\ \E e \in Range(result.retained) : e.window = Some(1) /\ e \in Range(pump)

\* The events of a call that are not for the caller, oldest first: those the
\* pump held before it, then the newly polled ones.
Unrouted ==
    LET Others(e) == ForAnother(result.window_id, e) IN
    SelectSeq(result.retained \o result.polled, Others)

\* C28 as stated: when more than 32 events would be retained, the pump keeps
\* the 32 most recently received ones.
C28_NewestKept ==
    result.op = "events" /\ Len(Unrouted) > 32 =>
       pump = SubSeq(Unrouted, Len(Unrouted) - 31, Len(Unrouted))

\* C28, amended: the pump keeps the 32 oldest of them and drops the newest.
C28_OldestKept ==
    result.op = "events" /\ Len(Unrouted) > 32 =>
       pump = SubSeq(Unrouted, 1, 32)

\* A call of window 1 polled a burst of 33 events for window 2 while the pump
\* held an event for window 2: the pump keeps that one and the first 31.
C28_Witness ==
    /\ result.op = "events"
    /\ result.window_id = 1
    /\ Len(result.retained) = 1
    /\ Len(Unrouted) = 34
    /\ Len(pump) = 32
    /\ pump[1] = result.retained[1]

\* The arrival order of two events.
Earlier(e1, e2) ==
    \/ e1.n[1] < e2.n[1]
    \/ e1.n[1] = e2.n[1] /\ e1.n[2] < e2.n[2]

\* C30: no event is taken twice, by one window or by two; an event with a
\* window id is taken by that window only; an event without one never
\* enters the pump: the first call that polls it takes it; no event that was
\* taken is in the pump or in SDL's queue; the events a call takes are in
\* arrival order, those the pump held before the newly polled ones.
C30_EachEventOnce ==
    LET taken == {delivered[i][2] : i \in 1 .. Len(delivered)}
        waiting == Range(pump) \cup Range(sdl_events)
    IN  /\ Cardinality(taken) = Len(delivered)
        /\ \A i \in 1 .. Len(delivered) :
              IsSome(delivered[i][2].window) =>
                 delivered[i][2].window = Some(delivered[i][1])
        /\ \A e \in Range(pump) : IsSome(e.window)
        /\ taken \cap waiting = {}
        /\ result.op = "events" =>
              /\ \A e \in Range(result.polled) :
                    ~IsSome(e.window) => e \in Range(result.events)
              /\ \A i \in 1 .. Len(result.events) - 1 :
                    Earlier(result.events[i], result.events[i + 1])
              /\ Range(result.events)
                    \subseteq Range(result.retained) \cup Range(result.polled)

\* Window 2 took an event the pump held for it, then a newly polled quit
\* without a window id, after window 1 had taken events of its own.
C30_Witness ==
    /\ result.op = "events"
    /\ result.window_id = 2
    /\ Len(result.events) = 2
    /\ result.events[1] \in Range(result.retained)
    /\ result.events[2] \in Range(result.polled)
    /\ result.events[2].kind = "Quit"
    /\ \E i \in 1 .. Len(delivered) : delivered[i][1] = 1


----------------------------------------------------------------------------
(* The invariants of a display. *)

\* The pixel array and the index computation of the display d agree with its
\* size: width * height pixels, the index x + y * width below that length
\* for a point of the display, two points never at one index, and no index
\* for a point outside.
WellFormed(d) ==
    /\ Len(d.pixels) = d.size[1] * d.size[2]
    /\ \A p \in ProbePoints(d.size) :
          IF p \in BoxPoints(d.size)
          THEN /\ point_to_index(d, p) = Some(p[1] + p[2] * d.size[1])
               /\ Unwrap(point_to_index(d, p)) < Len(d.pixels)
          ELSE point_to_index(d, p) = None
    /\ \A p, q \in BoxPoints(d.size) :
          point_to_index(d, p) = point_to_index(d, q) => p = q

\* The displays of a state: the one drawn on, the one it is compared with
\* and the one diff returned.
DisplaysOfState ==
    {display} \cup other
    \cup (IF result.op = "diff" THEN result.value ELSE {})

\* C26: every display that was created by new, with_default_color or diff
\* and then drawn on has width * height pixels and an index computation
\* that is x + y * width, one-to-one and below the array length inside the
\* display and None outside; no step changes the size of the display.
C26_DisplayInvariants ==
    /\ [](\A d \in DisplaysOfState : WellFormed(d))
    /\ [][display'.size = display.size]_vars

\* A draw_iter call changed a pixel of a display that is the diff of the
\* other display and a new one.
C26_Witness ==
    /\ result.op = "draw_iter"
    /\ Len(display.pixels) > 1
    /\ display # result.before
    /\ \E d \in other : IsSome(diff(d, new(color, d.size)).value)
                        /\ result.before = Unwrap(diff(d, new(color, d.size)).value)

----------------------------------------------------------------------------
(* Displays without pixels. *)

\* The display has a width or a height of zero.
ZeroSized(d) == d.size[1] = 0 \/ d.size[2] = 0

\* C29: to_be_bytes, to_le_bytes and to_ne_bytes of a display of 1, 2 or 4
\* bits per pixel with a width or a height of zero complete without fault
\* and return no bytes.
C29_ZeroSizedExports ==
    result.op = "to_bytes" /\ ZeroSized(display) =>
       ~result.panicked /\ result.value = <<>>

\* What holds instead: the export returns no bytes when only the height is
\* zero, and panics when the width is zero, whatever the height.
C29_ZeroWidthPanics ==
    result.op = "to_bytes" /\ ZeroSized(display) =>
       IF display.size[1] = 0
       THEN result.panicked
       ELSE ~result.panicked /\ result.value = <<>>

----------------------------------------------------------------------------
(* The framebuffer of a window. *)

\* The framebuffer and the SDL window of the window.
WindowFramebuffer == Unwrap(Unwrap(window).framebuffer)

WindowShown == Unwrap(Unwrap(window).sdl_window).shown

\* The framebuffer has the output size of the display.
FramebufferFits(w) ==
    IsSome(w.framebuffer) =>
       Unwrap(w.framebuffer).size = output_size(display, settings)

\* C23: after an update with a display whose output size is the
\* framebuffer's, the framebuffer and what the SDL window shows equal the
\* display rendered on a new image by to_rgb_output_image with the window's
\* settings, whatever was drawn and shown before; the framebuffer is
\* created by the first update and keeps its size and length from then on.
C23_FramebufferIsFullRedraw ==
    /\ updates > 0 => /\ IsSome(Unwrap(window).framebuffer)
                      /\ Len(WindowFramebuffer.data)
                            = 3 * WindowFramebuffer.size[1] * WindowFramebuffer.size[2]
    /\ result.op = "update" /\ IsSome(result.before.framebuffer) =>
          WindowFramebuffer.size = Unwrap(result.before.framebuffer).size
    /\ result.op = "update" /\ FramebufferFits(result.before) =>
          /\ ~result.panicked
          /\ WindowFramebuffer = Rendering(settings)
          /\ WindowShown = Rendering(settings).data

\* What holds instead: the equality of C23 for every scale above 1 and for
\* scale 1 without pixel spacing; with scale 1 and a pixel spacing the
\* framebuffer has the pixels of the display side by side (C1).
C23_FullRedrawUnlessSpacedUnitScale ==
    settings.scale # 1 \/ settings.pixel_spacing = 0 => C23_FramebufferIsFullRedraw

\* The second update of a display that was drawn on after the first one
\* changed the framebuffer of the first update.
C23_Witness ==
    /\ result.op = "update"
    /\ updates = 2
    /\ IsSome(result.before.framebuffer)
    /\ FramebufferFits(result.before)
    /\ WindowFramebuffer # Unwrap(result.before.framebuffer)
    /\ display # new(color, display.size)

\* The display drawn by draw_display at the origin of a new image of its
\* output size.
DrawnAlone(s) ==
    draw_display(OutputImage_new("Rgb888", output_size(display, s)),
                 color, display, <<0, 0>>, s).image

\* C24: an update with a display whose output size is not the size of the
\* window's framebuffer panics.
C24_MismatchIsFatal ==
    result.op = "update" /\ ~FramebufferFits(result.before) => result.panicked

\* What happens instead: the update returns, the framebuffer keeps the size
\* of the first update and holds the part of the display's rendering that
\* lies inside it, the rest of it being what the earlier update left.
C24_MismatchIsClipped ==
    result.op = "update" /\ ~FramebufferFits(result.before) =>
       /\ ~result.panicked
       /\ WindowFramebuffer.size = Unwrap(result.before.framebuffer).size
       /\ \A x \in 0 .. WindowFramebuffer.size[1] - 1,
             y \in 0 .. WindowFramebuffer.size[2] - 1 :
             image_pixel(WindowFramebuffer, x, y) =
                IF x < DrawnAlone(settings).size[1] /\ y < DrawnAlone(settings).size[2]
                THEN image_pixel(DrawnAlone(settings), x, y)
                ELSE image_pixel(Unwrap(result.before.framebuffer), x, y)

----------------------------------------------------------------------------
(* show_static. *)

\* The SDL events that mean Quit: SDL's quit and an Escape key-down.
IsQuit(e) == e.kind = "Quit" \/ (e.kind = "KeyDown" /\ e.keycode = Some("Escape"))

\* show_static was called and has not returned.
Polling == result.op = "show_static" /\ ~result.panicked /\ result.pc = "polling"

\* show_static has returned.
Returned == result.op = "show_static" /\ ~result.panicked /\ result.pc = "returned"

\* A Quit event for the window, or without a window id, waits in SDL's
\* queue or in the pump.
QuitWaiting ==
    \E e \in Range(sdl_events) \cup Range(pump) :
       IsQuit(e) /\ for_window(StaticWindowId, e)

\* The events the window took in the polls of this call before the last one.
EarlierPolls ==
    SubSeq(delivered, result.first + 1, Len(delivered) - Len(result.events))

\* C22: show_static updates the window once, at its call, and not while it
\* polls; while it polls no Quit event was delivered to the window since the
\* call; when it has returned, the last poll delivered a Quit event to the
\* window and no poll before it did; and a Quit event that waits for the
\* window while show_static polls leads to its return.
C22_ShowStaticUntilQuit ==
    /\ [](result.op = "show_static" =>
            /\ updates = result.updates + 1
            /\ IsSome(Unwrap(window).framebuffer)
            /\ WindowFramebuffer = Rendering(settings))
    /\ [][result.op = "show_static" /\ result'.op = "show_static" =>
            updates' = updates /\ window' = window]_vars
    /\ [](Polling =>
            \A i \in result.first + 1 .. Len(delivered) : ~IsQuit(delivered[i][2]))
    /\ [](Returned =>
            /\ \E e \in Range(result.events) :
                  IsQuit(e) /\ for_window(StaticWindowId, e)
            /\ \A i \in 1 .. Len(EarlierPolls) : ~IsQuit(EarlierPolls[i][2]))
    /\ (Polling /\ QuitWaiting) ~> Returned

\* show_static returned after a poll that took an Escape key-down for the
\* window; an earlier poll had taken an event that is no Quit, and an Escape
\* key-down for the other window stays in the pump.
C22_Witness ==
    /\ Returned
    /\ \E e \in Range(result.events) :
          e.kind = "KeyDown" /\ e.window = Some(StaticWindowId)
    /\ Len(EarlierPolls) > 0
    /\ \E e \in Range(pump) : IsQuit(e)

============================================================================
